---- MODULE Spec2Model ----
(***************************************************************************)
(* A model of the sw4rm conversation engine: Swarm.run, its streaming      *)
(* counterpart (streamGenerator / runStream), handleToolCalls, the retry   *)
(* wrapper, the OpenAI client wrapper, parseArguments and the delta        *)
(* merger (mergeFields / mergeChunk).                                      *)
(*                                                                         *)
(* JavaScript values that the code treats generically (the streamed        *)
(* deltas and the in-progress message) are tagged records                  *)
(*   [t |-> "str" | "num" | "null" | "obj" | "arr", s |-> text, o |-> map] *)
(* where an array is, as in JavaScript, a map keyed by "0", "1", ...       *)
(***************************************************************************)
EXTENDS Integers, Sequences, FiniteSets, TLC

(* ------------------------------------------------------------------ *)
(* Bounds of the model                                                  *)
(* ------------------------------------------------------------------ *)

\* The provider answers at most this many completion requests of one run
\* with tool calls; a later answer carries none.
MaxRequests == 2

\* The provider requests at most this many tool calls in one run.
MaxToolCalls == 2

\* The finite values of the maxTurns option are 0 .. MaxTurnsOpt.
MaxTurnsOpt == 3

\* The largest maxRetries of a retry configuration.
MaxRetriesOpt == 7

\* The largest number of deltas of one streamed answer.
MaxDeltas == 3

\* When the engine hosts two runs, the provider requests at most this many
\* tool calls of each, in at most as many answers.
PairMaxCalls == 1

\* mergeFields on its own is called at most this many times on one target.
MaxMerges == 2

\* The user of the command-line interface answers at most this many prompts.
MaxPrompts == 2

\* In a conversation of the command-line interface the provider requests at
\* most this many tool calls of each run, in at most as many answers.
CLIMaxCalls == 1

(* ------------------------------------------------------------------ *)
(* Program constants                                                    *)
(* ------------------------------------------------------------------ *)

\* maxTurns = Infinity, the default of the option.
Infinity == -1

DefaultMaxRetries == 3
DefaultInitialDelay == 1000
DefaultMaxDelay == 10000

CTX_VARS_NAME == "context_variables"

Null == "<null>"
Absent == "<absent>"

(* ------------------------------------------------------------------ *)
(* Errors and results                                                   *)
(* ------------------------------------------------------------------ *)

NoError == [name |-> "", code |-> "", class |-> "", text |-> ""]

\* new ValidationError(message, cause)
ValidationError(text) ==
    [name |-> "ValidationError", code |-> "VALIDATION_ERROR",
     class |-> "ValidationError", text |-> text]

\* new APIError(message, cause)
APIError(text) ==
    [name |-> "APIError", code |-> "API_ERROR", class |-> "APIError", text |-> text]

\* new ToolExecutionError(message, cause)
ToolExecutionError(text) ==
    [name |-> "ToolExecutionError", code |-> "TOOL_EXECUTION_ERROR",
     class |-> "ToolExecutionError", text |-> text]

\* new TimeoutError(message, cause)
TimeoutError(text) ==
    [name |-> "TimeoutError", code |-> "TIMEOUT_ERROR", class |-> "TimeoutError",
     text |-> text]

\* A plain JavaScript Error (or TypeError) thrown by a tool, the provider
\* or the runtime: it has a name and a message and no code.
JsError(name, text) == [name |-> name, code |-> "", class |-> name, text |-> text]

EmptyCtx == [k \in {} |-> ""]

NoData == [messages |-> <<>>, agent |-> Null, contextVariables |-> EmptyCtx]

\* Result<T>: {success: true, data} or {success: false, error}.
Success(data) == [success |-> TRUE, hasData |-> TRUE, data |-> data, error |-> NoError]
Failure(error) == [success |-> FALSE, hasData |-> FALSE, data |-> NoData, error |-> error]

\* No value yet.
NoResult == [success |-> FALSE, hasData |-> FALSE, data |-> NoData,
             error |-> [name |-> "<pending>", code |-> "", class |-> "", text |-> ""]]

\* A variant of SwarmErrorOf that keeps the code the caught error has.
SwarmErrorOfKeepsCode(error) ==
    [name |-> error.name, code |-> error.code, class |-> "Object", text |-> error.text]

\* The catch clause of run, streamGenerator and runStream: an Error becomes
\* a plain object {name, message, stack, code: "UNKNOWN_ERROR"}.
SwarmErrorOf(error) ==
    [name |-> error.name, code |-> "UNKNOWN_ERROR", class |-> "Object",
     text |-> error.text]

\* A variant of CatchAll that lets the exception escape to the caller.
CatchAllRethrows(error) == [raised |-> TRUE, result |-> NoResult]

CatchAll(error) == [raised |-> FALSE, result |-> Failure(SwarmErrorOf(error))]

ErrorTags ==
    {"VALIDATION_ERROR", "API_ERROR", "TOOL_EXECUTION_ERROR", "TIMEOUT_ERROR",
     "UNKNOWN_ERROR"}

(* ------------------------------------------------------------------ *)
(* Messages and tool calls                                              *)
(* ------------------------------------------------------------------ *)

\* Message: role, content (text or Null), sender, tool_call_id, tool_calls.
\* tool_calls is [kind |-> "null" | "absent" | "list", list |-> calls].
NoCalls(kind) == [kind |-> kind, list |-> <<>>]
CallList(list) == [kind |-> "list", list |-> list]

Msg(role, content, sender, tool_call_id, tool_calls) ==
    [role |-> role, content |-> content, sender |-> sender,
     tool_call_id |-> tool_call_id, tool_calls |-> tool_calls]

\* ToolCall: {id, type: "function", function: {name, arguments}}.
Call(id, type, name, arguments) ==
    [id |-> id, type |-> type, name |-> name, arguments |-> arguments]

\* A variant of Truthy in which only undefined is falsy.
TruthyUnlessAbsent(tool_calls) == tool_calls.kind # "absent"

\* JavaScript truthiness of message.tool_calls: null and undefined are
\* falsy, every array (the empty one too) is truthy.
Truthy(tool_calls) == tool_calls.kind = "list"

\* A variant of EndsTurn that ignores the executeTools option.
EndsTurnOnlyWithoutCalls(tool_calls, execTools) == ~Truthy(tool_calls)

\* if (!message.tool_calls || !executeTools) break;
EndsTurn(tool_calls, execTools) == ~Truthy(tool_calls) \/ ~execTools

(* ------------------------------------------------------------------ *)
(* Agents and tools                                                     *)
(* ------------------------------------------------------------------ *)

\* What a tool does when invoked: "text" returns a string, "agent" returns
\* an agent descriptor (a handoff), "vars" returns an object exposing a
\* context-variable delta, "throw" throws an Error.
Tools ==
    [echo   |-> [usesCtx |-> FALSE, does |-> "text",  text |-> "ok",
                 agent |-> Null, vars |-> EmptyCtx],
     lookup |-> [usesCtx |-> FALSE, does |-> "agent", text |-> "",
                 agent |-> "B", vars |-> EmptyCtx],
     setvar |-> [usesCtx |-> TRUE,  does |-> "vars",  text |-> "",
                 agent |-> Null, vars |-> [k |-> "v1"]],
     boom   |-> [usesCtx |-> FALSE, does |-> "throw", text |-> "Tool failed",
                 agent |-> Null, vars |-> EmptyCtx]]

\* Agent descriptors.  D's instructions are a zero-argument producer.
Agents ==
    [A |-> [name |-> "A", model |-> "gpt-4o", dynamic |-> FALSE,
            instructions |-> "You are A",
            functions |-> <<"lookup", "setvar", "echo", "boom">>,
            toolChoice |-> "auto", parallelToolCalls |-> TRUE],
     B |-> [name |-> "B", model |-> "gpt-4o", dynamic |-> FALSE,
            instructions |-> "You are B",
            functions |-> <<>>,
            toolChoice |-> "auto", parallelToolCalls |-> FALSE],
     D |-> [name |-> "D", model |-> "gpt-4o-mini", dynamic |-> TRUE,
            instructions |-> "You are D",
            functions |-> <<"echo", "boom">>,
            toolChoice |-> "auto", parallelToolCalls |-> FALSE]]

StartAgents == {"A", "B", "D"}

Range(s) == {s[i] : i \in DOMAIN s}

Min(a, b) == IF a < b THEN a ELSE b

(* ------------------------------------------------------------------ *)
(* parseArguments and tool invocation                                   *)
(* ------------------------------------------------------------------ *)

\* JSON.parse on the argument payloads of the model: the value, or the
\* SyntaxError it throws (the wording of its message is the runtime's).
JsonParse(text) ==
    CASE text = "{}" ->
            [ok |-> TRUE, kind |-> "object", value |-> EmptyCtx, error |-> NoError]
      [] text = "{\"x\":\"1\"}" ->
            [ok |-> TRUE, kind |-> "object", value |-> [x |-> "1"], error |-> NoError]
      [] text = "{\"x\":\"1\",\"y\":\"2\"}" ->
            [ok |-> TRUE, kind |-> "object", value |-> [x |-> "1", y |-> "2"],
             error |-> NoError]
      [] text = "42" ->
            [ok |-> TRUE, kind |-> "number", value |-> EmptyCtx, error |-> NoError]
      [] text = "null" ->
            [ok |-> TRUE, kind |-> "null", value |-> EmptyCtx, error |-> NoError]
      [] text \in {"", "{"} ->
            [ok |-> FALSE, kind |-> "", value |-> EmptyCtx,
             error |-> JsError("SyntaxError", "Unexpected end of JSON input")]
      [] OTHER ->
            [ok |-> FALSE, kind |-> "", value |-> EmptyCtx,
             error |-> JsError("SyntaxError", "Unexpected token")]

\* A variant of parseArguments whose error does not quote the input.
parseArgumentsNoText(argsStr) ==
    LET json == JsonParse(argsStr) IN
    IF json.ok
    THEN [threw |-> FALSE, error |-> NoError, cause |-> NoError, kind |-> json.kind,
          value |-> json.value]
    ELSE [threw |-> TRUE,
          error |-> ValidationError("Failed to parse function arguments"),
          cause |-> json.error, kind |-> "", value |-> EmptyCtx]

\* parseArguments(argsStr): the parsed value, or a ValidationError whose
\* message holds the offending text and whose cause is what JSON.parse
\* threw.
parseArguments(argsStr) ==
    LET json == JsonParse(argsStr) IN
    IF json.ok
    THEN [threw |-> FALSE, error |-> NoError, cause |-> NoError, kind |-> json.kind,
          value |-> json.value]
    ELSE [threw |-> TRUE,
          error |-> ValidationError("Failed to parse function arguments: " \o argsStr),
          cause |-> json.error, kind |-> "", value |-> EmptyCtx]

\* JSON.stringify of a tool's non-string return value.
JsonStringify(tool) ==
    CASE tool.does = "agent" ->
            "{\"name\":\"" \o Agents[tool.agent].name \o "\",\"instructions\":\""
               \o Agents[tool.agent].instructions \o "\"}"
      [] tool.does = "vars" ->
            "{\"contextVariables\":{\"k\":\"" \o tool.vars["k"] \o "\"}}"
      [] OTHER -> "\"" \o tool.text \o "\""

\* content: typeof result === "string" ? result : JSON.stringify(result)
ToolContent(tool) == IF tool.does = "text" THEN tool.text ELSE JsonStringify(tool)

\* A variant of NotFoundMessage that is not keyed to the call.
NotFoundMessageUnkeyed(toolCall) ==
    Msg("tool", "Error: Tool " \o toolCall.name \o " not found.", Absent,
        Absent, NoCalls("absent"))

NotFoundMessage(toolCall) ==
    Msg("tool", "Error: Tool " \o toolCall.name \o " not found.", Absent,
        toolCall.id, NoCalls("absent"))

ToolResultMessage(toolCall, tool) ==
    Msg("tool", ToolContent(tool), Absent, toolCall.id, NoCalls("absent"))

\* agent.functions.find((f) => f.name === name)
FindTool(agentName, name) == name \in Range(Agents[agentName].functions)

\* A variant of HandleToolCall in which an unregistered tool is fatal.
HandleToolCallFatal(toolCall, agentName, contextVars, response) ==
    IF ~FindTool(agentName, toolCall.name)
    THEN [step |-> "notfound", invoked |-> FALSE, threw |-> TRUE,
          error |-> ToolExecutionError("Tool " \o toolCall.name \o " not found"),
          response |-> response]
    ELSE [step |-> "invoked", invoked |-> TRUE, threw |-> FALSE, error |-> NoError,
          response |-> [response EXCEPT
                 !.messages = Append(@, ToolResultMessage(toolCall, Tools[toolCall.name]))]]

\* One iteration of the loop of handleToolCalls over toolCall, with the
\* accumulator `response` and the mapping `contextVariables` the caller passed.
\*   step = "notfound": the error message is pushed, the loop continues;
\*   step = "invoked":  the tool ran and its message is pushed;
\*   step = "parse" / "threw": a ToolExecutionError is thrown (the tool is
\*                      invoked only in the second case).
HandleToolCall(toolCall, agentName, contextVars, response) ==
    IF ~FindTool(agentName, toolCall.name)
    THEN [step |-> "notfound", invoked |-> FALSE, threw |-> FALSE, error |-> NoError,
          response |-> [response EXCEPT
                          !.messages = Append(@, NotFoundMessage(toolCall))]]
    ELSE LET args == parseArguments(toolCall.arguments)
             tool == Tools[toolCall.name]
         IN  IF args.threw
             THEN [step |-> "parse", invoked |-> FALSE, threw |-> TRUE,
                   error |-> ToolExecutionError(
                       "Failed to execute tool " \o toolCall.name \o ": "
                          \o args.error.text),
                   response |-> response]
             ELSE IF tool.does = "throw"
             THEN [step |-> "threw", invoked |-> TRUE, threw |-> TRUE,
                   error |-> ToolExecutionError(
                       "Failed to execute tool " \o toolCall.name \o ": " \o tool.text),
                   response |-> response]
             ELSE [step |-> "invoked", invoked |-> TRUE, threw |-> FALSE,
                   error |-> NoError,
                   response |-> [response EXCEPT
                          !.messages = Append(@, ToolResultMessage(toolCall, tool))]]

\* The arguments a tool is invoked with: the parsed mapping, plus the
\* context mapping under CTX_VARS_NAME when the tool's source mentions it.
InvocationOf(toolCall, contextVars, turn) ==
    [tool |-> toolCall.name, id |-> toolCall.id, turn |-> turn,
     args |-> parseArguments(toolCall.arguments).value,
     ctx |-> IF Tools[toolCall.name].usesCtx THEN contextVars ELSE EmptyCtx,
     ctxInjected |-> Tools[toolCall.name].usesCtx]

\* const response = {messages: [], agent: null, contextVariables: {...contextVariables}}
NewResponse(contextVars) ==
    [messages |-> <<>>, agent |-> Null, contextVariables |-> contextVars]

\* Object.assign(target, source)
Assign(target, source) ==
    [x \in DOMAIN target \cup DOMAIN source |->
        IF x \in DOMAIN source THEN source[x] ELSE target[x]]

(* ------------------------------------------------------------------ *)
(* The completion request                                               *)
(* ------------------------------------------------------------------ *)

\* A variant of CreateParams that sends the tool manifest of every agent,
\* also of one without tools.
CreateParamsAlwaysTools(agentName, instructions, history, modelOverride, stream) ==
    LET a == Agents[agentName] IN
    [model |-> IF modelOverride # Null THEN modelOverride ELSE a.model,
     messages |-> <<Msg("system", instructions, Absent, Absent, NoCalls("absent"))>>
                     \o history,
     stream |-> stream,
     hasTools |-> TRUE,
     tools |-> a.functions,
     tool_choice |-> a.toolChoice,
     parallel_tool_calls |-> a.parallelToolCalls]

\* createParams of getChatCompletion.
CreateParams(agentName, instructions, history, modelOverride, stream) ==
    LET a == Agents[agentName] IN
    [model |-> IF modelOverride # Null THEN modelOverride ELSE a.model,
     messages |-> <<Msg("system", instructions, Absent, Absent, NoCalls("absent"))>>
                     \o history,
     stream |-> stream,
     hasTools |-> Len(a.functions) > 0,
     tools |-> IF Len(a.functions) > 0 THEN a.functions ELSE <<>>,
     tool_choice |-> IF Len(a.functions) > 0 THEN a.toolChoice ELSE Absent,
     parallel_tool_calls |-> IF Len(a.functions) > 0 THEN a.parallelToolCalls ELSE FALSE]

\* What the provider's client library throws when a call fails.
ProviderFailure == JsError("Error", "provider call threw")

\* A variant of createChatCompletion that lets the provider's failure through.
createChatCompletionThrows(provider) ==
    [threw |-> provider.kind = "throw", success |-> TRUE, error |-> NoError,
     cause |-> NoError, data |-> provider]

\* A variant of createChatCompletion that drops the original failure.
createChatCompletionNoCause(provider) ==
    IF provider.kind = "throw"
    THEN [threw |-> FALSE, success |-> FALSE, error |-> APIError("OpenAI API call failed"),
          cause |-> NoError, data |-> provider]
    ELSE [threw |-> FALSE, success |-> TRUE, error |-> NoError, cause |-> NoError,
          data |-> provider]

\* OpenAIClient.createChatCompletion: the provider's answer wrapped as a
\* success, a thrown failure converted to a failed Result with an APIError
\* whose cause is the thrown failure.  It never throws.
createChatCompletion(provider) ==
    IF provider.kind = "throw"
    THEN [threw |-> FALSE, success |-> FALSE, error |-> APIError("OpenAI API call failed"),
          cause |-> ProviderFailure, data |-> provider]
    ELSE [threw |-> FALSE, success |-> TRUE, error |-> NoError, cause |-> NoError,
          data |-> provider]

\* A variant of RetryStep that doubles the delay without the cap.
RetryStepUncapped(op, attempt, delay, config) ==
    IF ~op.threw
    THEN [next |-> "return", attempt |-> attempt, delay |-> delay, slept |-> <<>>,
          warned |-> <<>>]
    ELSE IF attempt < config.maxRetries
    THEN [next |-> "sleep", attempt |-> attempt + 1, delay |-> delay * 2,
          slept |-> <<delay>>, warned |-> <<attempt>>]
    ELSE [next |-> "throw", attempt |-> attempt + 1, delay |-> delay, slept |-> <<>>,
          warned |-> <<attempt>>]

\* A variant of RetryStep that sleeps after the final attempt as well.
RetryStepSleepsLast(op, attempt, delay, config) ==
    IF ~op.threw
    THEN [next |-> "return", attempt |-> attempt, delay |-> delay, slept |-> <<>>,
          warned |-> <<>>]
    ELSE IF attempt < config.maxRetries
    THEN [next |-> "sleep", attempt |-> attempt + 1,
          delay |-> Min(delay * 2, config.maxDelay), slept |-> <<delay>>,
          warned |-> <<attempt>>]
    ELSE [next |-> "throw", attempt |-> attempt + 1, delay |-> delay,
          slept |-> <<delay>>, warned |-> <<attempt>>]

\* One pass of the loop of retry over the outcome `op` of operation():
\*   "return": the value is returned;
\*   "sleep":  the failure is logged, retry sleeps for `delay` and doubles it;
\*   "throw":  the last attempt failed, lastError is thrown.
\* `warned` is the attempt number logger.warn names after a failure.
RetryStep(op, attempt, delay, config) ==
    IF ~op.threw
    THEN [next |-> "return", attempt |-> attempt, delay |-> delay, slept |-> <<>>,
          warned |-> <<>>]
    ELSE IF attempt < config.maxRetries
    THEN [next |-> "sleep", attempt |-> attempt + 1,
          delay |-> Min(delay * 2, config.maxDelay), slept |-> <<delay>>,
          warned |-> <<attempt>>]
    ELSE [next |-> "throw", attempt |-> attempt + 1, delay |-> delay, slept |-> <<>>,
          warned |-> <<attempt>>]

(* ------------------------------------------------------------------ *)
(* JavaScript values, mergeFields and mergeChunk                        *)
(* ------------------------------------------------------------------ *)

EmptyMap == [k \in {} |-> ""]

JStr(text) == [t |-> "str", s |-> text, o |-> EmptyMap]
JNum(digits) == [t |-> "num", s |-> digits, o |-> EmptyMap]
JNull == [t |-> "null", s |-> "", o |-> EmptyMap]
JUndefined == [t |-> "undefined", s |-> "", o |-> EmptyMap]
JBool(b) == [t |-> "bool", s |-> IF b THEN "true" ELSE "false", o |-> EmptyMap]
JObj(map) == [t |-> "obj", s |-> "", o |-> map]

\* The array index a key "0", "1", ... stands for.
IndexOfKey(key) == CHOOSE i \in 0..9 : ToString(i) = key

\* An array is an object whose keys are "0", "1", ...
JArr(seq) ==
    [t |-> "arr", s |-> "",
     o |-> [key \in {ToString(i - 1) : i \in DOMAIN seq} |-> seq[IndexOfKey(key) + 1]]]

\* map[key], undefined when the key is absent.
Get(map, key) == IF key \in DOMAIN map THEN map[key] ELSE JUndefined

\* map[key] = value
Put(map, key, value) == [k \in DOMAIN map \cup {key} |-> IF k = key THEN value ELSE map[k]]

\* delete map[key]
Without(map, key) == [k \in DOMAIN map \ {key} |-> map[k]]

\* JavaScript truthiness.
JsTruthy(value) ==
    CASE value.t = "str" -> value.s # ""
      [] value.t = "num" -> value.s # "0"
      [] value.t = "bool" -> value.s = "true"
      [] value.t \in {"obj", "arr"} -> TRUE
      [] OTHER -> FALSE

\* The text a truthy value contributes to a string concatenation.
JsText(value) == IF value.t \in {"obj", "arr"} THEN "[object Object]" ELSE value.s

\* A variant of mergeFields in which a text value replaces the old text.
RECURSIVE mergeFieldsOverwrite(_, _)
mergeFieldsOverwrite(target, source) ==
    LET touched == {key \in DOMAIN source : source[key].t \in {"str", "obj", "arr"}}
    IN  [key \in DOMAIN target \cup touched |->
            IF key \notin touched
            THEN target[key]
            ELSE LET value == source[key]
                     old == Get(target, key)
                 IN  IF value.t = "str"
                     THEN value
                     ELSE LET base == IF JsTruthy(old) THEN old ELSE JObj(EmptyMap)
                          IN  IF base.t \in {"obj", "arr"}
                              THEN [base EXCEPT !.o = mergeFieldsOverwrite(@, value.o)]
                              ELSE base]

\* mergeFields(target, source), on the key/value maps of the two objects;
\* the value is target after the call.  A text value is appended to
\* (target[key] || ""); an object value (an array is one) is merged into
\* target[key], created empty when falsy; any other value is skipped.
RECURSIVE mergeFields(_, _)
mergeFields(target, source) ==
    LET touched == {key \in DOMAIN source : source[key].t \in {"str", "obj", "arr"}}
    IN  [key \in DOMAIN target \cup touched |->
            IF key \notin touched
            THEN target[key]
            ELSE LET value == source[key]
                     old == Get(target, key)
                 IN  IF value.t = "str"
                     THEN JStr((IF JsTruthy(old) THEN JsText(old) ELSE "") \o value.s)
                     ELSE LET base == IF JsTruthy(old) THEN old ELSE JObj(EmptyMap)
                          IN  IF base.t \in {"obj", "arr"}
                              THEN [base EXCEPT !.o = mergeFields(@, value.o)]
                              ELSE base]

\* The record mergeChunk creates for a tool-call index it has not seen.
NewToolCallRecord(id) ==
    JObj(("function" :> JObj(("arguments" :> JStr("")) @@ ("name" :> JStr(""))))
         @@ ("id" :> (IF JsTruthy(id) THEN id ELSE JStr("")))
         @@ ("type" :> JStr("")))

\* A variant of mergeChunk that takes the id of every fragment, also of
\* one that supplies none.
mergeChunkTakesEveryId(finalResponse, delta) ==
    LET merged == mergeFields(finalResponse, Without(delta, "role"))
        toolCallsOfDelta == Get(delta, "tool_calls")
    IN  IF ~(toolCallsOfDelta.t = "arr" /\ "0" \in DOMAIN toolCallsOfDelta.o)
        THEN merged
        ELSE LET first == toolCallsOfDelta.o["0"].o
                 index == Get(first, "index")
                 key == IF index.t = "num" THEN index.s ELSE "undefined"
                 holder == IF JsTruthy(Get(merged, "tool_calls"))
                           THEN merged["tool_calls"] ELSE JObj(EmptyMap)
                 id == Get(first, "id")
                 record == IF ~JsTruthy(Get(holder.o, key))
                           THEN NewToolCallRecord(id)
                           ELSE [holder.o[key] EXCEPT
                                    !.o = Put(@, "id", IF JsTruthy(id) THEN id ELSE JStr(""))]
                 restToolCall == Without(Without(first, "index"), "id")
                 updated == [record EXCEPT !.o = mergeFields(@, restToolCall)]
             IN  Put(merged, "tool_calls", [holder EXCEPT !.o = Put(@, key, updated)])

\* mergeChunk(finalResponse, delta), on the maps of the two objects; the
\* value is finalResponse after the call.
mergeChunk(finalResponse, delta) ==
    LET merged == mergeFields(finalResponse, Without(delta, "role"))
        toolCallsOfDelta == Get(delta, "tool_calls")
    IN  IF ~(toolCallsOfDelta.t = "arr" /\ "0" \in DOMAIN toolCallsOfDelta.o)
        THEN merged
        ELSE LET first == toolCallsOfDelta.o["0"].o
                 index == Get(first, "index")
                 key == IF index.t = "num" THEN index.s ELSE "undefined"
                 holder == IF JsTruthy(Get(merged, "tool_calls"))
                           THEN merged["tool_calls"] ELSE JObj(EmptyMap)
                 id == Get(first, "id")
                 record == IF ~JsTruthy(Get(holder.o, key))
                           THEN NewToolCallRecord(id)
                           ELSE IF JsTruthy(id)
                           THEN [holder.o[key] EXCEPT !.o = Put(@, "id", id)]
                           ELSE holder.o[key]
                 restToolCall == Without(Without(first, "index"), "id")
                 updated == [record EXCEPT !.o = mergeFields(@, restToolCall)]
             IN  Put(merged, "tool_calls", [holder EXCEPT !.o = Put(@, key, updated)])

(* ------------------------------------------------------------------ *)
(* Objects by reference                                                 *)
(* ------------------------------------------------------------------ *)

\* A heap is a sequence of objects, an object's reference is its position;
\* an object maps keys to values, a value is a primitive or a reference.
HStr(text) == [t |-> "str", s |-> text, ref |-> 0]
HRef(id) == [t |-> "ref", s |-> "", ref |-> id]
HArr(id) == [t |-> "ref", s |-> "arr", ref |-> id]
HUndefined == [t |-> "undefined", s |-> "", ref |-> 0]
HPrim(value) == [t |-> value.t, s |-> value.s, ref |-> 0]

\* JavaScript truthiness of a heap value.
HTruthy(value) ==
    CASE value.t = "str" -> value.s # ""
      [] value.t = "num" -> value.s # "0"
      [] value.t = "bool" -> value.s = "true"
      [] value.t = "ref" -> TRUE
      [] OTHER -> FALSE

\* The text a truthy heap value contributes to a string concatenation.
HText(value) == IF value.t = "ref" THEN "[object Object]" ELSE value.s

\* The heap after building the object literal `tree` (nested literals are
\* objects of their own); the new object's reference is Len(hp) + 1.
RECURSIVE Alloc(_, _)
RECURSIVE AllocInto(_, _, _, _)
Alloc(hp, tree) == AllocInto(Append(hp, EmptyMap), Len(hp) + 1, tree, DOMAIN tree)

AllocInto(hp, id, tree, keys) ==
    IF keys = {} THEN hp
    ELSE LET key == CHOOSE k \in keys : TRUE
             value == tree[key]
         IN  IF value.t \in {"obj", "arr"}
             THEN AllocInto([Alloc(hp, value.o) EXCEPT
                               ![id] = Put(@, key, IF value.t = "arr" THEN HArr(Len(hp) + 1)
                                                   ELSE HRef(Len(hp) + 1))],
                            id, tree, keys \ {key})
             ELSE AllocInto([hp EXCEPT ![id] = Put(@, key, HPrim(value))],
                            id, tree, keys \ {key})

\* The value tree below the object `id`.
RECURSIVE Deep(_, _)
Deep(hp, id) ==
    [key \in DOMAIN hp[id] |->
        LET value == hp[id][key]
        IN  IF value.t = "ref"
            THEN [t |-> IF value.s = "arr" THEN "arr" ELSE "obj", s |-> "",
                  o |-> Deep(hp, value.ref)]
            ELSE [t |-> value.t, s |-> value.s, o |-> EmptyMap]]

\* A variant of NestedTarget that stores the source's own object.
NestedTargetIsSource(hp, target, key, value) ==
    [hp EXCEPT ![target] = Put(@, key, value)]

\* if (!target[key]) target[key] = {};  with target[key] falsy: a new, empty
\* object is stored at the key.
NestedTarget(hp, target, key, value) ==
    [Append(hp, EmptyMap) EXCEPT ![target] = Put(@, key, HRef(Len(hp) + 1))]

\* mergeFields(target, source) on objects of the heap: the heap after the
\* loop over the entries `keys` of source.
RECURSIVE mergeFieldsAt(_, _, _, _)
mergeFieldsAt(hp, target, source, keys) ==
    IF keys = {} THEN hp
    ELSE LET key == CHOOSE k \in keys : TRUE
             value == hp[source][key]
             old == IF key \in DOMAIN hp[target] THEN hp[target][key] ELSE HUndefined
             rest == keys \ {key}
         IN  IF value.t = "str"
             THEN mergeFieldsAt(
                     [hp EXCEPT ![target] =
                         Put(@, key, HStr((IF HTruthy(old) THEN HText(old) ELSE "")
                                          \o value.s))],
                     target, source, rest)
             ELSE IF value.t = "ref"
             THEN LET made == IF HTruthy(old) THEN hp
                              ELSE NestedTarget(hp, target, key, value)
                      sub == made[target][key]
                      merged == IF sub.t = "ref"
                                THEN mergeFieldsAt(made, sub.ref, value.ref,
                                                   DOMAIN made[value.ref])
                                ELSE made
                  IN  mergeFieldsAt(merged, target, source, rest)
             ELSE mergeFieldsAt(hp, target, source, rest)

\* A variant of DeleteRole that leaves the delta as it is.
DeleteRoleSkipped(hp, delta) == hp

\* delete delta.role
DeleteRole(hp, delta) == [hp EXCEPT ![delta] = Without(@, "role")]

\* const {id, ...restToolCall} = toolCalls[0];
\* mergeFields(finalResponse.tool_calls[index], restToolCall);
\* `first` is toolCalls[0] and `record` the accumulator's record.
MergeRestAt(hp, record, first) ==
    mergeFieldsAt(Append(hp, Without(hp[first], "id")), record, Len(hp) + 1,
                  DOMAIN hp[first] \ {"id"})

\* The record finalResponse.tool_calls[index] is created with the id of
\* toolCalls[0], or is assigned that id when the id is truthy; then the
\* rest of toolCalls[0] is merged into it.
ToolCallRecordAt(hp, finalResponse, first, key) ==
    LET holder == hp[finalResponse]["tool_calls"].ref
        id == IF "id" \in DOMAIN hp[first] THEN hp[first]["id"] ELSE HUndefined
        known == key \in DOMAIN hp[holder] /\ HTruthy(hp[holder][key])
    IN  IF ~known
        THEN MergeRestAt(
                [Alloc(hp, NewToolCallRecord([t |-> id.t, s |-> id.s, o |-> EmptyMap]).o)
                    EXCEPT ![holder] = Put(@, key, HRef(Len(hp) + 1))],
                Len(hp) + 1, first)
        ELSE IF HTruthy(id)
        THEN MergeRestAt([hp EXCEPT ![hp[holder][key].ref] = Put(@, "id", id)],
                         hp[holder][key].ref, first)
        ELSE MergeRestAt(hp, hp[holder][key].ref, first)

\* if (!finalResponse.tool_calls) finalResponse.tool_calls = {};
HolderAt(hp, finalResponse, first, key) ==
    LET held == hp[finalResponse] IN
    IF "tool_calls" \in DOMAIN held /\ HTruthy(held["tool_calls"])
    THEN ToolCallRecordAt(hp, finalResponse, first, key)
    ELSE ToolCallRecordAt(NestedTarget(hp, finalResponse, "tool_calls", HUndefined),
                  finalResponse, first, key)

\* The second half of mergeChunk: when delta.tool_calls is a non-empty
\* list, its first entry loses its index and is merged into the record
\* the accumulator keeps under that index.
ToolCallAt(merged, finalResponse, delta) ==
    LET toolCallsOfDelta == Get(merged[delta], "tool_calls") IN
    IF ~(toolCallsOfDelta.t = "ref" /\ toolCallsOfDelta.s = "arr"
         /\ "0" \in DOMAIN merged[toolCallsOfDelta.ref])
    THEN merged
    ELSE LET first == merged[toolCallsOfDelta.ref]["0"].ref
             index == Get(merged[first], "index")
             key == IF index.t = "num" THEN index.s ELSE "undefined"
         IN  HolderAt([merged EXCEPT ![first] = Without(@, "index")],
                      finalResponse, first, key)

\* mergeChunk(finalResponse, delta) on objects of the heap: the heap after
\* the call.
mergeChunkAt(hp, finalResponse, delta) ==
    ToolCallAt(mergeFieldsAt(DeleteRole(hp, delta), finalResponse, delta,
                             DOMAIN DeleteRole(hp, delta)[delta]),
               finalResponse, delta)

\* Object.values(map) for a map with array-index keys: ascending key order.
RECURSIVE ValuesFrom(_, _)
ValuesFrom(map, from) ==
    IF \A key \in DOMAIN map : IndexOfKey(key) < from
    THEN <<>>
    ELSE IF ToString(from) \in DOMAIN map
    THEN <<map[ToString(from)]>> \o ValuesFrom(map, from + 1)
    ELSE ValuesFrom(map, from + 1)

ObjectValues(map) == ValuesFrom(map, 0)

\* A text field of an object as the engine reads it; Absent when undefined.
TextField(map, key) ==
    LET value == Get(map, key) IN
    CASE value.t = "str" -> value.s
      [] value.t = "null" -> Null
      [] OTHER -> Absent

\* An accumulated tool-call record read as a ToolCall.
ToToolCall(record) ==
    LET fn == Get(record.o, "function") IN
    Call(TextField(record.o, "id"), TextField(record.o, "type"),
         TextField(fn.o, "name"), TextField(fn.o, "arguments"))

\* The in-progress message of streamGenerator at the start of a turn.
NewStreamMessage(senderName) ==
    ("content" :> JStr("")) @@ ("sender" :> JStr(senderName))
    @@ ("role" :> JStr("assistant")) @@ ("tool_calls" :> JNull)

\* message.tool_calls = Object.values(message.tool_calls || {}), null when
\* empty; the message as it is pushed onto the history.
FinishStreamMessage(msg) ==
    LET holder == Get(msg, "tool_calls")
        values == IF JsTruthy(holder) THEN ObjectValues(holder.o) ELSE <<>>
        calls == [i \in 1..Len(values) |-> ToToolCall(values[i])]
    IN  Msg(TextField(msg, "role"), TextField(msg, "content"), TextField(msg, "sender"),
            Absent, IF Len(values) = 0 THEN NoCalls("null") ELSE CallList(calls))

(* ------------------------------------------------------------------ *)
(* Streamed answers                                                     *)
(* ------------------------------------------------------------------ *)

\* How the provider cuts a text into two fragments.
Pieces(text) ==
    CASE text = "" -> <<>>
      [] text = "hello" -> <<"hel", "lo">>
      [] text = "{}" -> <<"{", "}">>
      [] text = "not json" -> <<"not ", "json">>
      [] OTHER -> <<text>>

Chunk(delta) == [ok |-> TRUE, delta |-> delta]

\* A chunk without a choice: chunk.choices[0] is undefined.
BadChunk == [ok |-> FALSE, delta |-> EmptyMap]

ContentValue(content) == IF content = Null THEN JNull ELSE JStr(content)

ToolCallDelta(fields) == "tool_calls" :> JArr(<<JObj(fields)>>)

\* The whole tool call in one fragment.
WholeCallDelta(i, call) ==
    ToolCallDelta(("index" :> JNum(ToString(i - 1))) @@ ("id" :> JStr(call.id))
                  @@ ("type" :> JStr(call.type))
                  @@ ("function" :> JObj(("name" :> JStr(call.name))
                                         @@ ("arguments" :> JStr(call.arguments)))))

\* The first fragment of a tool call: id, type, name, empty arguments.
HeadCallDelta(i, call) ==
    ToolCallDelta(("index" :> JNum(ToString(i - 1))) @@ ("id" :> JStr(call.id))
                  @@ ("type" :> JStr(call.type))
                  @@ ("function" :> JObj(("name" :> JStr(call.name))
                                         @@ ("arguments" :> JStr("")))))

\* A later fragment of a tool call: a piece of the arguments, no id.
ArgumentsDelta(i, piece) ==
    ToolCallDelta(("index" :> JNum(ToString(i - 1)))
                  @@ ("function" :> JObj("arguments" :> JStr(piece))))

RECURSIVE Concat(_)
Concat(seqs) == IF seqs = <<>> THEN <<>> ELSE Head(seqs) \o Concat(Tail(seqs))

\* The chunks of the streamed answer that carries `msg`.
Fragments(msg, style) ==
    LET calls == msg.tool_calls.list IN
    IF style = "whole"
    THEN <<Chunk(("role" :> JStr(msg.role)) @@ ("content" :> ContentValue(msg.content)))>>
         \o [i \in 1..Len(calls) |-> Chunk(WholeCallDelta(i, calls[i]))]
    ELSE <<Chunk(("role" :> JStr(msg.role))
                 @@ ("content" :> (IF msg.content = Null THEN JNull ELSE JStr(""))))>>
         \o (IF msg.content = Null THEN <<>>
             ELSE [j \in 1..Len(Pieces(msg.content)) |->
                      Chunk("content" :> JStr(Pieces(msg.content)[j]))])
         \o Concat([i \in 1..Len(calls) |->
                      <<Chunk(HeadCallDelta(i, calls[i]))>>
                      \o [j \in 1..Len(Pieces(calls[i].arguments)) |->
                             Chunk(ArgumentsDelta(i, Pieces(calls[i].arguments)[j]))]])
         \o <<Chunk(EmptyMap)>>

\* The chunks the provider streams for an outcome.
StreamOf(provider) ==
    IF provider.kind = "ok" THEN Fragments(provider.message, provider.style)
    ELSE <<BadChunk>>

(* ------------------------------------------------------------------ *)
(* The completion provider (the environment)                            *)
(* ------------------------------------------------------------------ *)

\* The tool calls the provider may request: an unregistered tool, a
\* registered tool with well-formed or malformed arguments, a throwing
\* tool, a handoff tool and a tool returning a context-variable delta.
ProviderCallKinds ==
    {[name |-> "ghost",  arguments |-> "{}"],
     [name |-> "echo",   arguments |-> "{}"],
     [name |-> "echo",   arguments |-> "not json"],
     [name |-> "boom",   arguments |-> "{}"],
     [name |-> "lookup", arguments |-> "{}"],
     [name |-> "setvar", arguments |-> "{}"]}

CallSeqs(n) == UNION {[1..m -> ProviderCallKinds] : m \in 0..n}

\* Ids are unique within one assistant message.
WithIds(kinds) ==
    [i \in 1..Len(kinds) |->
        Call("call-" \o ToString(i), "function", kinds[i].name, kinds[i].arguments)]

NoMessage == Msg("", Null, Absent, Absent, NoCalls("absent"))

\* How a streamed answer is cut into deltas.
Styles == {"whole", "split"}

ProviderMessages(maxCalls, lists) ==
    {Msg("assistant", "hello", Absent, Absent, NoCalls(kind)) : kind \in {"null", "absent"}}
    \cup (IF lists
          THEN {Msg("assistant", "", Absent, Absent, CallList(WithIds(kinds))) :
                   kinds \in CallSeqs(maxCalls)}
          ELSE {})

\* What one call of the provider's client library does: it answers with a
\* message ("ok"), answers with a response that has no choice ("malformed"),
\* or throws ("throw").
ProviderOutcomes(maxCalls, lists, styles) ==
    {[kind |-> "ok", message |-> m, style |-> st] :
        m \in ProviderMessages(maxCalls, lists), st \in styles}
    \cup {[kind |-> "malformed", message |-> NoMessage, style |-> "whole"],
          [kind |-> "throw", message |-> NoMessage, style |-> "whole"]}

RECURSIVE CallsRequested(_)
CallsRequested(resps) ==
    IF resps = <<>> THEN 0
    ELSE Len(Head(resps).message.tool_calls.list) + CallsRequested(Tail(resps))

ListsAnswered(resps) ==
    Cardinality({i \in DOMAIN resps : resps[i].message.tool_calls.kind = "list"})

\* typeof agent.instructions === "function" ? agent.instructions() : ...:
\* how many times building one request invokes the producer.
ProducerInvoked(agentName) == IF Agents[agentName].dynamic THEN 1 ELSE 0

\* The producer of dynamic instructions returns the text or throws: a
\* plain Error, or one of the engine's exported error classes.
InstructionOutcomes(agentName) ==
    {[threw |-> FALSE, text |-> Agents[agentName].instructions, error |-> NoError]}
    \cup (IF Agents[agentName].dynamic
          THEN {[threw |-> TRUE, text |-> "",
                 error |-> JsError("Error", "instructions failed")],
                [threw |-> TRUE, text |-> "",
                 error |-> TimeoutError("instructions failed")]}
          ELSE {})

(* ------------------------------------------------------------------ *)
(* State                                                                *)
(* ------------------------------------------------------------------ *)

VARIABLES
    \* the caller's arguments of run
    agent, messages, contextVariables, maxTurns, executeTools, stream,
    \* this.config.retryConfig
    retryConfig,
    \* position and locals of run / streamGenerator / handleToolCalls / retry
    pc, mode, consumer, activeAgent, context, history, attempt, delay,
    toolCalls, callIdx, response,
    \* streamGenerator: the in-progress message and the chunks not yet read
    message, chunks,
    \* what the caller receives
    result, raised,
    \* the result of the non-streaming run, kept for the comparison with the
    \* drained event sequence
    runResult,
    \* the provider's answers of that run, which the provider then streams
    script,
    \* observation: requests sent, provider calls and their outcomes, tool
    \* invocations, events yielded, backoff sleeps, warnings logged by retry
    requests, providerCalls, responses, invocations, events, sleeps, warnings,
    \* observation: invocations of a producer of dynamic instructions
    producerCalls,
    \* whether history and context are the caller's own list and mapping
    \* (the same objects) rather than copies of them
    aliases,
    \* parseArguments on its own: the outcomes of the calls made so far
    parsed,
    \* a second run hosted by the same engine, suspended
    other,
    \* mergeFields on its own: the objects, and for each call made so far
    \* its source and the heap at the call
    heap, merges,
    \* the command-line interface: position of start, its conversation,
    \* the readline interface and what was logged
    cli,
    \* observation: the tool invocations started and settled, in order
    toolLog

inputs == <<agent, messages, contextVariables, maxTurns, executeTools, stream, retryConfig>>
locals == <<activeAgent, context, history, attempt, delay, toolCalls, callIdx, response>>
genLocals == <<message, chunks>>
logs == <<requests, providerCalls, responses, invocations, events, sleeps, warnings,
          producerCalls>>
aside == <<parsed, other, heap, merges, cli, toolLog>>
vars == <<inputs, pc, mode, consumer, locals, genLocals, result, raised, runResult, script,
          logs, aliases, aside>>

NoAliases == [history |-> FALSE, context |-> FALSE]

\* No second run.
NoRun == [pc |-> "none"]

\* No command-line interface.
NoCLI == [pc |-> "none"]

\* A variant of Entry in which the run works on the caller's own list and
\* mapping.
EntryAliased(agentArg, msgs, ctxVars) ==
    [activeAgent |-> agentArg, context |-> ctxVars, history |-> msgs,
     aliases |-> [history |-> TRUE, context |-> TRUE]]

\* The locals of run and of streamGenerator at entry:
\*   let activeAgent = agent; const context = {...contextVariables};
\*   const history = [...messages];
\* context and history are new objects holding the caller's entries.
Entry(agentArg, msgs, ctxVars) ==
    [activeAgent |-> agentArg, context |-> ctxVars, history |-> msgs,
     aliases |-> [history |-> FALSE, context |-> FALSE]]

InitialMessages == <<Msg("user", "hi", Absent, Absent, NoCalls("absent"))>>

DefaultRetryConfig ==
    [maxRetries |-> DefaultMaxRetries, initialDelay |-> DefaultInitialDelay,
     maxDelay |-> DefaultMaxDelay]

MaxTurnsValues == (0..MaxTurnsOpt) \cup {Infinity}

InitCommon ==
    /\ agent \in StartAgents
    /\ messages = InitialMessages
    /\ contextVariables = [k |-> "v0"]
    /\ maxTurns \in MaxTurnsValues
    /\ executeTools \in BOOLEAN
    /\ retryConfig = DefaultRetryConfig
    /\ pc = "start"
    /\ mode = "run"
    /\ consumer = "none"
    /\ activeAgent = Null
    /\ context = EmptyCtx
    /\ history = <<>>
    /\ attempt = 0
    /\ delay = 0
    /\ toolCalls = <<>>
    /\ callIdx = 0
    /\ response = NoData
    /\ message = EmptyMap
    /\ chunks = <<>>
    /\ result = NoResult
    /\ raised = FALSE
    /\ runResult = NoResult
    /\ script = <<>>
    /\ requests = <<>>
    /\ providerCalls = 0
    /\ responses = <<>>
    /\ invocations = <<>>
    /\ events = <<>>
    /\ sleeps = <<>>
    /\ warnings = <<>>
    /\ producerCalls = 0
    /\ aliases = NoAliases
    /\ parsed = <<>>
    /\ heap = <<>>
    /\ merges = <<>>
    /\ cli = NoCLI
    /\ toolLog = <<>>
    /\ other = NoRun

Init == InitCommon /\ stream \in BOOLEAN

(* ------------------------------------------------------------------ *)
(* Swarm.run                                                            *)
(* ------------------------------------------------------------------ *)

\* A variant of LoopGuard that never ends the loop.
LoopGuardUnbounded(appended, limit) == TRUE

\* A variant of LoopGuard that admits one more turn.
LoopGuardInclusive(appended, limit) == limit = Infinity \/ appended <= limit

\* history.length - initLen < maxTurns
LoopGuard(appended, limit) == limit = Infinity \/ appended < limit

\* A variant of SuccessResult that returns the whole history.
SuccessResultWholeHistory(hist, initLen, agentName, ctx) ==
    Success([messages |-> hist, agent |-> agentName, contextVariables |-> ctx])

\* {success: true, data: {messages: history.slice(initLen), agent, contextVariables}}
SuccessResult(hist, initLen, agentName, ctx) ==
    Success([messages |-> SubSeq(hist, initLen + 1, Len(hist)),
             agent |-> agentName, contextVariables |-> ctx])

\* The call returns `outcome` to its caller.
Return(outcome) ==
    /\ result' = outcome.result
    /\ raised' = outcome.raised
    /\ pc' = "done"

Returned(res) == [raised |-> FALSE, result |-> res]

\* The state of the caller of handleToolCalls after it returned toolResult,
\* `hist` being the caller's history at the call: the early return on a
\* failed result, else the tool messages pushed, the context assigned and
\* the active agent switched.
AfterDispatch(hist, toolResult) ==
    IF ~toolResult.success \/ ~toolResult.hasData
    THEN /\ Return(Returned(toolResult))
         /\ history' = hist
         /\ UNCHANGED <<context, activeAgent>>
    ELSE /\ history' = hist \o toolResult.data.messages
         /\ context' = Assign(context, toolResult.data.contextVariables)
         /\ activeAgent' = IF toolResult.data.agent # Null
                           THEN toolResult.data.agent ELSE activeAgent
         /\ pc' = IF mode = "run" THEN "loop" ELSE "gen_loop"
         /\ UNCHANGED <<result, raised>>

\* Entry of run: the options are read; with stream set the call is handed
\* to runStream, which creates the generator and pulls its first event;
\* else the locals of the loop are set up.
run ==
    /\ pc = "start"
    /\ LET entry == Entry(agent, messages, contextVariables) IN
         /\ activeAgent' = entry.activeAgent
         /\ context' = entry.context
         /\ history' = entry.history
         /\ aliases' = entry.aliases
    /\ IF stream
       THEN /\ mode' = "gen"
            /\ consumer' = "runStream"
            /\ pc' = "gen_loop"
       ELSE /\ mode' = "run"
            /\ consumer' = "none"
            /\ pc' = "loop"
    /\ UNCHANGED <<inputs, aside,
                   attempt, delay, toolCalls, callIdx, response, genLocals,
                   result, raised, runResult, script, logs>>

\* The head of the while loop of run and the first half of
\* getChatCompletion: the instructions are evaluated and the request built.
Run_LoopHead ==
    /\ pc = "loop"
    /\ mode = "run"
    /\ IF LoopGuard(Len(history) - Len(messages), maxTurns) /\ activeAgent # Null
       THEN /\ producerCalls' = producerCalls + ProducerInvoked(activeAgent)
            /\ \E io \in InstructionOutcomes(activeAgent) :
                 IF io.threw
                 THEN /\ Return(CatchAll(io.error))
                      /\ UNCHANGED <<requests, attempt, delay>>
                 ELSE /\ requests' = Append(requests,
                             CreateParams(activeAgent, io.text, history, Null, FALSE))
                      /\ attempt' = 1
                      /\ delay' = retryConfig.initialDelay
                      /\ pc' = "attempt"
                      /\ UNCHANGED <<result, raised>>
       ELSE /\ Return(Returned(SuccessResult(history, Len(messages), activeAgent, context)))
            /\ UNCHANGED <<requests, attempt, delay, producerCalls>>
    /\ UNCHANGED <<inputs, aside, aliases,
                   mode, consumer, activeAgent, context, history, toolCalls,
                   callIdx, response, genLocals, runResult, script, providerCalls, responses,
                   invocations, events, sleeps, warnings>>

\* The tool calls the provider requests of two runs hosted together.
PairCallKinds ==
    {[name |-> "ghost",  arguments |-> "{}"],
     [name |-> "echo",   arguments |-> "{}"],
     [name |-> "boom",   arguments |-> "{}"],
     [name |-> "setvar", arguments |-> "{}"]}

\* The tool calls the provider requests in a conversation of the
\* command-line interface: of a registered tool, and of an unregistered
\* tool with well-formed or malformed arguments.
CLICallKinds ==
    {[name |-> "echo",  arguments |-> "{}"],
     [name |-> "ghost", arguments |-> "{}"],
     [name |-> "ghost", arguments |-> "not json"]}

\* What the provider may answer to a run the command-line interface made.
CLIOutcomes(styles) ==
    {[kind |-> "ok", message |-> m, style |-> st] :
        m \in {Msg("assistant", "hello", Absent, Absent, NoCalls("null"))}
              \cup (IF ListsAnswered(responses) < CLIMaxCalls
                    THEN {Msg("assistant", "", Absent, Absent, CallList(WithIds(<<kind>>))) :
                             kind \in CLICallKinds}
                    ELSE {}),
        st \in styles}
    \cup {[kind |-> "throw", message |-> NoMessage, style |-> "whole"]}

\* What the provider may answer to the next call, within the bounds.
NextOutcomes(styles) ==
    IF cli # NoCLI
    THEN CLIOutcomes(styles)
    ELSE IF other = NoRun
    THEN ProviderOutcomes(MaxToolCalls - CallsRequested(responses),
                          ListsAnswered(responses) < MaxRequests, styles)
    ELSE {o \in ProviderOutcomes(PairMaxCalls - CallsRequested(responses),
                                  ListsAnswered(responses) < PairMaxCalls, styles) :
             \A i \in DOMAIN o.message.tool_calls.list :
                 [name |-> o.message.tool_calls.list[i].name,
                  arguments |-> o.message.tool_calls.list[i].arguments] \in PairCallKinds}

\* One attempt of retry around client.createChatCompletion and, when retry
\* returns, the rest of the turn of run up to the first tool invocation,
\* the provider answering with one of `outcomes`.
Run_AttemptOn(outcomes) ==
    /\ pc = "attempt"
    /\ mode = "run"
    /\ \E provider \in outcomes :
         LET completion == createChatCompletion(provider)
             step == RetryStep(completion, attempt, delay, retryConfig)
             received == [provider.message EXCEPT !.sender = Agents[activeAgent].name]
             pushed == Append(history, received)
         IN  /\ providerCalls' = providerCalls + 1
             /\ responses' = Append(responses, provider)
             /\ attempt' = step.attempt
             /\ delay' = step.delay
             /\ sleeps' = sleeps \o step.slept
             /\ warnings' = warnings \o step.warned
             /\ CASE step.next = "sleep" ->
                        UNCHANGED <<pc, result, raised, history, context, activeAgent,
                                    toolCalls, callIdx, response>>
                  [] step.next = "throw" ->
                        /\ Return(CatchAll(ProviderFailure))
                        /\ UNCHANGED <<history, context, activeAgent, toolCalls, callIdx,
                                       response>>
                  [] ~completion.success ->
                        /\ Return(Returned(Failure(completion.error)))
                        /\ UNCHANGED <<history, context, activeAgent, toolCalls, callIdx,
                                       response>>
                  [] provider.kind = "malformed" ->
                        /\ Return(CatchAll(JsError("TypeError",
                               "Cannot read properties of undefined (reading 'message')")))
                        /\ UNCHANGED <<history, context, activeAgent, toolCalls, callIdx,
                                       response>>
                  [] EndsTurn(received.tool_calls, executeTools) ->
                        /\ history' = pushed
                        /\ Return(Returned(
                               SuccessResult(pushed, Len(messages), activeAgent, context)))
                        /\ UNCHANGED <<context, activeAgent, toolCalls, callIdx, response>>
                  [] received.tool_calls.list = <<>> ->
                        /\ AfterDispatch(pushed, Success(NewResponse(context)))
                        /\ UNCHANGED <<toolCalls, callIdx, response>>
                  [] OTHER ->
                        /\ history' = pushed
                        /\ toolCalls' = received.tool_calls.list
                        /\ callIdx' = 1
                        /\ response' = NewResponse(context)
                        /\ pc' = "dispatch"
                        /\ UNCHANGED <<result, raised, context, activeAgent>>
    /\ UNCHANGED <<inputs, aside, aliases, producerCalls,
                   mode, consumer, genLocals, runResult, script, requests, invocations,
                   events>>

Run_Attempt == Run_AttemptOn(NextOutcomes({"whole"}))

\* handleToolCalls: the loop body for toolCalls[callIdx]; after the last
\* call the function returns and its caller takes the result over.
Dispatch ==
    /\ pc = "dispatch"
    /\ LET toolCall == toolCalls[callIdx]
           h == HandleToolCall(toolCall, activeAgent, context, response)
       IN  /\ invocations' = IF h.invoked
                             THEN Append(invocations,
                                         InvocationOf(toolCall, context, Len(requests)))
                             ELSE invocations
           /\ IF h.threw
              THEN /\ Return(CatchAll(h.error))
                   /\ UNCHANGED <<history, context, activeAgent, callIdx, response>>
              ELSE IF callIdx < Len(toolCalls)
              THEN /\ callIdx' = callIdx + 1
                   /\ response' = h.response
                   /\ UNCHANGED <<pc, result, raised, history, context, activeAgent>>
              ELSE /\ AfterDispatch(history, Success(h.response))
                   /\ response' = h.response
                   /\ UNCHANGED callIdx
    /\ UNCHANGED <<inputs, aside, aliases, producerCalls,
                   mode, consumer, attempt, delay, toolCalls, genLocals,
                   runResult, script, requests, providerCalls, responses, events, sleeps, warnings>>

(* ------------------------------------------------------------------ *)
(* Swarm.streamGenerator and Swarm.runStream                            *)
(* ------------------------------------------------------------------ *)

\* A variant of DelimEvent in which every marker is a start marker.
DelimEventStartOnly(delim) == [kind |-> "start", delta |-> EmptyMap]

\* yield {delim: "start"} and yield {delim: "end"}
DelimEvent(delim) == [kind |-> delim, delta |-> EmptyMap]
DeltaEvent(delta) == [kind |-> "delta", delta |-> delta]

\* The placeholder runStream returns when the first pull yields an event.
PlaceholderResult == Success(NoData)

\* A variant of Yield in which every consumer resumes the generator.
YieldAndResume(event, resume) ==
    /\ events' = Append(events, event)
    /\ pc' = resume
    /\ UNCHANGED <<result, raised>>

\* The generator yields. runStream pulls once and returns without pulling
\* again; a draining consumer takes the event and resumes the generator.
Yield(event, resume) ==
    /\ events' = Append(events, event)
    /\ IF consumer = "runStream"
       THEN Return(Returned(PlaceholderResult))
       ELSE /\ pc' = resume
            /\ UNCHANGED <<result, raised>>

\* The head of the while loop of streamGenerator: the in-progress message
\* is created, the instructions are evaluated and the request built.
Gen_LoopHead ==
    /\ pc = "gen_loop"
    /\ mode = "gen"
    /\ message' = NewStreamMessage(Agents[agent].name)
    /\ IF LoopGuard(Len(history) - Len(messages), maxTurns)
       THEN /\ producerCalls' = producerCalls + ProducerInvoked(activeAgent)
            /\ \E io \in InstructionOutcomes(activeAgent) :
                 IF io.threw
                 THEN /\ Return(CatchAll(io.error))
                      /\ UNCHANGED <<requests, attempt, delay>>
                 ELSE /\ requests' = Append(requests,
                             CreateParams(activeAgent, io.text, history, Null, TRUE))
                      /\ attempt' = 1
                      /\ delay' = retryConfig.initialDelay
                      /\ pc' = "gen_attempt"
                      /\ UNCHANGED <<result, raised>>
       ELSE /\ Return(Returned(SuccessResult(history, Len(messages), activeAgent, context)))
            /\ UNCHANGED <<requests, attempt, delay, producerCalls>>
    /\ UNCHANGED <<inputs, aside, aliases,
                   mode, consumer, activeAgent, context, history, toolCalls,
                   callIdx, response, chunks, runResult, script, providerCalls,
                   responses, invocations, events, sleeps, warnings>>

\* What the provider streams next: the answer it gave the non-streaming
\* run for this turn, cut into deltas, when there is one.
StreamOutcomes ==
    IF Len(responses) < Len(script)
    THEN LET given == script[Len(responses) + 1] IN
         IF given.kind = "ok"
         THEN {[given EXCEPT !.style = st] : st \in Styles}
         ELSE {given}
    ELSE NextOutcomes(Styles)

\* One attempt of retry around client.createChatCompletion in
\* streamGenerator and, when retry returns a stream, the start marker.
Gen_Attempt ==
    /\ pc = "gen_attempt"
    /\ mode = "gen"
    /\ \E provider \in StreamOutcomes :
         LET completion == createChatCompletion(provider)
             step == RetryStep(completion, attempt, delay, retryConfig)
         IN  /\ providerCalls' = providerCalls + 1
             /\ responses' = Append(responses, provider)
             /\ attempt' = step.attempt
             /\ delay' = step.delay
             /\ sleeps' = sleeps \o step.slept
             /\ warnings' = warnings \o step.warned
             /\ CASE step.next = "sleep" ->
                        UNCHANGED <<pc, result, raised, chunks, events>>
                  [] step.next = "throw" ->
                        /\ Return(CatchAll(ProviderFailure))
                        /\ UNCHANGED <<chunks, events>>
                  [] ~completion.success ->
                        /\ Return(Returned(Failure(completion.error)))
                        /\ UNCHANGED <<chunks, events>>
                  [] OTHER ->
                        /\ chunks' = StreamOf(provider)
                        /\ Yield(DelimEvent("start"), "gen_chunks")
    /\ UNCHANGED <<inputs, aside, aliases, producerCalls,
                   mode, consumer, activeAgent, context, history, toolCalls,
                   callIdx, response, message, runResult, script, requests, invocations>>

\* One pass of the for-await loop: the delta is labelled with the sender,
\* yielded, stripped of role and sender and merged into the message.
Gen_Chunk ==
    /\ pc = "gen_chunks"
    /\ chunks # <<>>
    /\ LET chunk == Head(chunks)
           labelled == IF Get(chunk.delta, "role") = JStr("assistant")
                       THEN Put(chunk.delta, "sender", JStr(Agents[activeAgent].name))
                       ELSE chunk.delta
           stripped == Without(Without(labelled, "role"), "sender")
       IN  IF ~chunk.ok
           THEN /\ Return(CatchAll(JsError("TypeError",
                       "Cannot read properties of undefined (reading 'delta')")))
                /\ UNCHANGED <<message, chunks, events>>
           ELSE /\ message' = mergeChunk(message, stripped)
                /\ chunks' = Tail(chunks)
                /\ Yield(DeltaEvent(labelled), "gen_chunks")
    /\ UNCHANGED <<inputs, aside, aliases, producerCalls,
                   mode, consumer, locals, runResult, script, requests,
                   providerCalls, responses, invocations, sleeps, warnings>>

\* The stream is exhausted: the end marker is yielded, the tool calls of
\* the message are listed, the message is pushed and the turn goes on as
\* in run.
Gen_TurnEnd ==
    /\ pc = "gen_chunks"
    /\ chunks = <<>>
    /\ events' = Append(events, DelimEvent("end"))
    /\ LET finished == FinishStreamMessage(message)
           pushed == Append(history, finished)
       IN  IF EndsTurn(finished.tool_calls, executeTools)
           THEN /\ history' = pushed
                /\ Return(Returned(
                       SuccessResult(pushed, Len(messages), activeAgent, context)))
                /\ UNCHANGED <<toolCalls, callIdx, response>>
           ELSE /\ history' = pushed
                /\ toolCalls' = finished.tool_calls.list
                /\ callIdx' = 1
                /\ response' = NewResponse(context)
                /\ pc' = "dispatch"
                /\ UNCHANGED <<result, raised>>
    /\ UNCHANGED <<inputs, aside, aliases, producerCalls,
                   mode, consumer, activeAgent, context, attempt, delay,
                   genLocals, runResult, script, requests, providerCalls, responses,
                   invocations, sleeps, warnings>>

\* The caller, having the result of the non-streaming run, starts the
\* streaming run with the same arguments and drains its events; the
\* provider streams the answers it gave before.
Replay ==
    /\ pc = "done"
    /\ mode = "run"
    /\ runResult' = result
    /\ script' = responses
    /\ result' = NoResult
    /\ raised' = FALSE
    /\ mode' = "gen"
    /\ consumer' = "drain"
    /\ pc' = "gen_loop"
    /\ LET entry == Entry(agent, messages, contextVariables) IN
         /\ activeAgent' = entry.activeAgent
         /\ context' = entry.context
         /\ history' = entry.history
         /\ aliases' = entry.aliases
    /\ producerCalls' = 0
    /\ requests' = <<>>
    /\ providerCalls' = 0
    /\ responses' = <<>>
    /\ invocations' = <<>>
    /\ events' = <<>>
    /\ sleeps' = <<>>
    /\ warnings' = <<>>
    /\ UNCHANGED <<inputs, aside,
                   attempt, delay, toolCalls, callIdx, response, genLocals>>

NextRun == run \/ Run_LoopHead \/ Run_Attempt \/ Dispatch

\* run, with the stream option (runStream pulls the first event only).
Next == NextRun \/ Gen_LoopHead \/ Gen_Attempt

Spec == Init /\ [][Next]_vars

\* The non-streaming run with a provider that is never out of tool calls
\* to request: with a finite maxTurns every call of the provider answers
\* with any message, a tool call in every turn included (at most one a
\* message), or fails.  (With maxTurns unbounded the provider stays within
\* its bounds.)
\* The event loop runs every continuation that is ready: a step that can
\* be taken is taken.
InitTerm == InitCommon /\ stream = FALSE

TermOutcomes ==
    IF maxTurns = Infinity
    THEN NextOutcomes({"whole"})
    ELSE ProviderOutcomes(1, TRUE, {"whole"})

Term_Attempt == Run_AttemptOn(TermOutcomes)

NextTerm == run \/ Run_LoopHead \/ Term_Attempt \/ Dispatch

SpecTerm == InitTerm /\ [][NextTerm]_vars /\ WF_vars(NextTerm)

\* The non-streaming run followed by the drained streaming run.
InitEquiv == InitCommon /\ stream = FALSE

NextEquiv == NextRun \/ Replay \/ Gen_LoopHead \/ Gen_Attempt \/ Gen_Chunk \/ Gen_TurnEnd

SpecEquiv == InitEquiv /\ [][NextEquiv]_vars

(* ------------------------------------------------------------------ *)
(* streamGenerator with a consumer that drains the event sequence       *)
(* ------------------------------------------------------------------ *)

\* A call of streamGenerator about to start, its events pulled one by one
\* until the generator returns.
InitStream ==
    /\ agent \in {"A", "B"}
    /\ messages = InitialMessages
    /\ contextVariables = [k |-> "v0"]
    /\ maxTurns = Infinity
    /\ executeTools \in BOOLEAN
    /\ stream = TRUE
    /\ retryConfig = DefaultRetryConfig
    /\ pc = "gen_start"
    /\ mode = "gen"
    /\ consumer = "drain"
    /\ activeAgent = Null
    /\ context = EmptyCtx
    /\ history = <<>>
    /\ attempt = 0
    /\ delay = 0
    /\ toolCalls = <<>>
    /\ callIdx = 0
    /\ response = NoData
    /\ message = EmptyMap
    /\ chunks = <<>>
    /\ result = NoResult
    /\ raised = FALSE
    /\ runResult = NoResult
    /\ script = <<>>
    /\ requests = <<>>
    /\ providerCalls = 0
    /\ responses = <<>>
    /\ invocations = <<>>
    /\ events = <<>>
    /\ sleeps = <<>>
    /\ warnings = <<>>
    /\ producerCalls = 0
    /\ aliases = NoAliases
    /\ parsed = <<>>
    /\ heap = <<>>
    /\ merges = <<>>
    /\ cli = NoCLI
    /\ toolLog = <<>>
    /\ other = NoRun

\* Entry of streamGenerator: the options are read and the locals set up.
streamGenerator ==
    /\ pc = "gen_start"
    /\ LET entry == Entry(agent, messages, contextVariables) IN
         /\ activeAgent' = entry.activeAgent
         /\ context' = entry.context
         /\ history' = entry.history
         /\ aliases' = entry.aliases
    /\ pc' = "gen_loop"
    /\ UNCHANGED <<inputs, aside, mode, consumer, attempt, delay, toolCalls, callIdx,
                   response, genLocals, result, raised, runResult, script, logs>>

NextStream ==
    streamGenerator \/ Gen_LoopHead \/ Gen_Attempt \/ Gen_Chunk \/ Gen_TurnEnd \/ Dispatch

SpecStream == InitStream /\ [][NextStream]_vars

(* ------------------------------------------------------------------ *)
(* Two runs hosted by one engine, interleaved                           *)
(* ------------------------------------------------------------------ *)

\* What belongs to one call of run: its arguments, its position, its
\* locals, what it hands its caller, and the calls it was seen to make.
\* The engine's own fields (client, config, logger) are readonly and
\* belong to no call.
RunScoped ==
    [agent |-> agent, messages |-> messages, contextVariables |-> contextVariables,
     maxTurns |-> maxTurns, executeTools |-> executeTools,
     pc |-> pc, activeAgent |-> activeAgent, context |-> context, history |-> history,
     attempt |-> attempt, delay |-> delay, toolCalls |-> toolCalls, callIdx |-> callIdx,
     response |-> response, result |-> result, raised |-> raised,
     requests |-> requests, providerCalls |-> providerCalls, responses |-> responses,
     invocations |-> invocations, producerCalls |-> producerCalls, aliases |-> aliases]

\* A variant of Resume in which the history is a field of the engine,
\* shared by the calls it hosts.
ResumeSharedHistory(saved, current) == [saved EXCEPT !.history = current.history]

\* What a suspended call finds when it is resumed, `saved` being its state
\* at the suspension and `current` that of the call that ran meanwhile:
\* its own locals, which live in the frame of the call.
Resume(saved, current) == saved

\* The caller of the second run passes its own messages and mapping.
SecondMessages == <<Msg("user", "hey", Absent, Absent, NoCalls("absent"))>>

\* The second call of run is given a limit of turns.
SecondMaxTurns == 3

\* The second call of run, not yet started.
SecondRun ==
    [agent |-> "A", messages |-> SecondMessages, contextVariables |-> [k |-> "w0"],
     maxTurns |-> SecondMaxTurns, executeTools |-> TRUE,
     pc |-> "start", activeAgent |-> Null, context |-> EmptyCtx, history |-> <<>>,
     attempt |-> 0, delay |-> 0, toolCalls |-> <<>>, callIdx |-> 0,
     response |-> NoData, result |-> NoResult, raised |-> FALSE,
     requests |-> <<>>, providerCalls |-> 0, responses |-> <<>>,
     invocations |-> <<>>, producerCalls |-> 0, aliases |-> NoAliases]

InitPair ==
    /\ agent = "A"
    /\ messages = InitialMessages
    /\ contextVariables = [k |-> "v0"]
    /\ maxTurns = Infinity
    /\ executeTools = TRUE
    /\ stream = FALSE
    /\ retryConfig = DefaultRetryConfig
    /\ pc = "start"
    /\ mode = "run"
    /\ consumer = "none"
    /\ activeAgent = Null
    /\ context = EmptyCtx
    /\ history = <<>>
    /\ attempt = 0
    /\ delay = 0
    /\ toolCalls = <<>>
    /\ callIdx = 0
    /\ response = NoData
    /\ message = EmptyMap
    /\ chunks = <<>>
    /\ result = NoResult
    /\ raised = FALSE
    /\ runResult = NoResult
    /\ script = <<>>
    /\ requests = <<>>
    /\ providerCalls = 0
    /\ responses = <<>>
    /\ invocations = <<>>
    /\ events = <<>>
    /\ sleeps = <<>>
    /\ warnings = <<>>
    /\ producerCalls = 0
    /\ aliases = NoAliases
    /\ parsed = <<>>
    /\ heap = <<>>
    /\ merges = <<>>
    /\ cli = NoCLI
    /\ toolLog = <<>>
    /\ other = SecondRun

\* The scheduled call is suspended at an await (the completion request,
\* a tool invocation), has not started or has returned, and the other
\* call, not yet over, is resumed.
Switch ==
    /\ other # NoRun
    /\ pc \in {"start", "attempt", "dispatch", "done"}
    /\ other.pc # "done"
    /\ other' = RunScoped
    /\ LET resumed == Resume(other, RunScoped) IN
         /\ agent' = resumed.agent
         /\ messages' = resumed.messages
         /\ contextVariables' = resumed.contextVariables
         /\ maxTurns' = resumed.maxTurns
         /\ executeTools' = resumed.executeTools
         /\ pc' = resumed.pc
         /\ activeAgent' = resumed.activeAgent
         /\ context' = resumed.context
         /\ history' = resumed.history
         /\ attempt' = resumed.attempt
         /\ delay' = resumed.delay
         /\ toolCalls' = resumed.toolCalls
         /\ callIdx' = resumed.callIdx
         /\ response' = resumed.response
         /\ result' = resumed.result
         /\ raised' = resumed.raised
         /\ requests' = resumed.requests
         /\ providerCalls' = resumed.providerCalls
         /\ responses' = resumed.responses
         /\ invocations' = resumed.invocations
         /\ producerCalls' = resumed.producerCalls
         /\ aliases' = resumed.aliases
    /\ UNCHANGED <<stream, retryConfig, mode, consumer, genLocals, runResult, script,
                   events, sleeps, warnings, parsed, heap, merges, cli, toolLog>>

NextPair == NextRun \/ Switch

SpecPair == InitPair /\ [][NextPair]_vars

(* ------------------------------------------------------------------ *)
(* retry on its own, around an operation that may throw                 *)
(* ------------------------------------------------------------------ *)

InitialDelays == {0, 1000, 3000, 20000}

MaxDelays == {5000, 10000}

RetryConfigs ==
    [maxRetries : 0..MaxRetriesOpt, initialDelay : InitialDelays, maxDelay : MaxDelays]

\* What the operation does at its n-th invocation: it returns a value (a
\* successful or a failed Result) or throws an Error.
OperationOutcomes(n) ==
    {[threw |-> FALSE, value |-> Success(NoData), error |-> NoError],
     [threw |-> FALSE, value |-> Failure(APIError("OpenAI API call failed")),
      error |-> NoError],
     [threw |-> TRUE, value |-> NoResult,
      error |-> JsError("Error", "attempt " \o ToString(n) \o " failed")]}

\* The call throws `error` to its caller.
Thrown(error) == [raised |-> TRUE, result |-> Failure(error)]

\* A call of retry(operation, config, logger) about to start.
InitRetry ==
    /\ agent = "A"
    /\ messages = InitialMessages
    /\ contextVariables = EmptyCtx
    /\ maxTurns = Infinity
    /\ executeTools = TRUE
    /\ stream = FALSE
    /\ retryConfig \in RetryConfigs
    /\ pc = "retry_start"
    /\ mode = "retry"
    /\ consumer = "none"
    /\ activeAgent = Null
    /\ context = EmptyCtx
    /\ history = <<>>
    /\ attempt = 0
    /\ delay = 0
    /\ toolCalls = <<>>
    /\ callIdx = 0
    /\ response = NoData
    /\ message = EmptyMap
    /\ chunks = <<>>
    /\ result = NoResult
    /\ raised = FALSE
    /\ runResult = NoResult
    /\ script = <<>>
    /\ requests = <<>>
    /\ providerCalls = 0
    /\ responses = <<>>
    /\ invocations = <<>>
    /\ events = <<>>
    /\ sleeps = <<>>
    /\ warnings = <<>>
    /\ producerCalls = 0
    /\ aliases = NoAliases
    /\ parsed = <<>>
    /\ heap = <<>>
    /\ merges = <<>>
    /\ cli = NoCLI
    /\ toolLog = <<>>
    /\ other = NoRun

\* Entry of retry: let delay = config.initialDelay; attempt = 1.
retry ==
    /\ pc = "retry_start"
    /\ delay' = retryConfig.initialDelay
    /\ attempt' = 1
    /\ pc' = "retry_loop"
    /\ UNCHANGED <<inputs, aside, aliases,
                   mode, consumer, activeAgent, context, history, toolCalls,
                   callIdx, response, genLocals, result, raised, runResult, script, logs>>

\* One pass of the for loop of retry: the operation is invoked (counted in
\* providerCalls) and its outcome handled; when the loop is not entered
\* at all, lastError is undefined and the generic error is thrown.
Retry_Attempt ==
    /\ pc = "retry_loop"
    /\ IF attempt > retryConfig.maxRetries
       THEN /\ Return(Thrown(JsError("Error", "Operation failed with unknown error")))
            /\ UNCHANGED <<attempt, delay, providerCalls, sleeps, warnings>>
       ELSE \E op \in OperationOutcomes(attempt) :
              LET step == RetryStep(op, attempt, delay, retryConfig) IN
              /\ providerCalls' = providerCalls + 1
              /\ attempt' = step.attempt
              /\ delay' = step.delay
              /\ sleeps' = sleeps \o step.slept
              /\ warnings' = warnings \o step.warned
              /\ CASE step.next = "return" -> Return(Returned(op.value))
                   [] step.next = "sleep" -> UNCHANGED <<pc, result, raised>>
                   [] OTHER -> Return(Thrown(op.error))
    /\ UNCHANGED <<inputs, aside, aliases, producerCalls,
                   mode, consumer, activeAgent, context, history, toolCalls,
                   callIdx, response, genLocals, runResult, script, requests,
                   responses, invocations, events>>

NextRetry == retry \/ Retry_Attempt

SpecRetry == InitRetry /\ [][NextRetry]_vars

(* ------------------------------------------------------------------ *)
(* The for-await loop of streamGenerator over arbitrary deltas          *)
(* ------------------------------------------------------------------ *)

\* A fragment that carries only the id of a tool call.
IdDelta(i, id) ==
    ToolCallDelta(("index" :> JNum(ToString(i - 1))) @@ ("id" :> JStr(id)))

\* The deltas a provider may stream: pieces of text, and for the tool
\* calls 0 and 1 a head fragment, an arguments fragment and an id-only
\* fragment, each alone in the delta's tool_calls list.
StreamedDeltas ==
    {("content" :> JStr(text)) : text \in {"Hel", "lo"}}
    \cup {HeadCallDelta(i, Call(id, "function", "echo", "")) :
             i \in {1, 2}, id \in {"abc", "xyz"}}
    \cup {ArgumentsDelta(i, "{}") : i \in {1, 2}}
    \cup {IdDelta(i, id) : i \in {1, 2}, id \in {"abc", "xyz"}}

RECURSIVE SeqsUpTo(_, _)
SeqsUpTo(set, n) ==
    IF n = 0 THEN {<<>>}
    ELSE LET shorter == SeqsUpTo(set, n - 1) IN
         shorter \cup {Append(seq, x) : seq \in shorter, x \in set}

\* streamGenerator inside a turn, the start marker yielded, about to read
\* the stream of the completion; the consumer drains the events.
InitMerge ==
    /\ agent = "A"
    /\ messages = InitialMessages
    /\ contextVariables = EmptyCtx
    /\ maxTurns = Infinity
    /\ executeTools = TRUE
    /\ stream = FALSE
    /\ retryConfig = DefaultRetryConfig
    /\ pc = "gen_chunks"
    /\ mode = "merge"
    /\ consumer = "drain"
    /\ activeAgent = "A"
    /\ context = EmptyCtx
    /\ history = InitialMessages
    /\ attempt = 1
    /\ delay = DefaultInitialDelay
    /\ toolCalls = <<>>
    /\ callIdx = 0
    /\ response = NoData
    /\ message = NewStreamMessage("A")
    /\ chunks \in {[i \in DOMAIN seq |-> Chunk(seq[i])] :
                      seq \in SeqsUpTo(StreamedDeltas, MaxDeltas)}
    /\ result = NoResult
    /\ raised = FALSE
    /\ runResult = NoResult
    /\ script = <<>>
    /\ requests = <<>>
    /\ providerCalls = 1
    /\ responses = <<>>
    /\ invocations = <<>>
    /\ events = <<>>
    /\ sleeps = <<>>
    /\ warnings = <<>>
    /\ producerCalls = 0
    /\ aliases = NoAliases
    /\ parsed = <<>>
    /\ heap = <<>>
    /\ merges = <<>>
    /\ cli = NoCLI
    /\ toolLog = <<>>
    /\ other = NoRun

SpecMerge == InitMerge /\ [][Gen_Chunk]_vars

(* ------------------------------------------------------------------ *)
(* parseArguments on its own, over the argument payloads of a call list *)
(* ------------------------------------------------------------------ *)

\* Argument payloads: JSON objects, JSON that is no object, and texts
\* that are not JSON.
ArgumentTexts ==
    {"{}", "{\"x\":\"1\"}", "{\"x\":\"1\",\"y\":\"2\"}", "42",
     "not json", "invalid json", "{"}

\* A caller about to apply parseArguments to the arguments of each call
\* of a list, one after the other.
InitParse ==
    /\ agent = "A"
    /\ messages = InitialMessages
    /\ contextVariables = EmptyCtx
    /\ maxTurns = Infinity
    /\ executeTools = TRUE
    /\ stream = FALSE
    /\ retryConfig = DefaultRetryConfig
    /\ pc = "parse"
    /\ mode = "parse"
    /\ consumer = "none"
    /\ activeAgent = Null
    /\ context = EmptyCtx
    /\ history = <<>>
    /\ attempt = 0
    /\ delay = 0
    /\ toolCalls \in {[i \in DOMAIN texts |->
                          Call("call-" \o ToString(i), "function", "echo", texts[i])] :
                      texts \in SeqsUpTo(ArgumentTexts, MaxToolCalls)}
    /\ callIdx = 1
    /\ response = NoData
    /\ message = EmptyMap
    /\ chunks = <<>>
    /\ result = NoResult
    /\ raised = FALSE
    /\ runResult = NoResult
    /\ script = <<>>
    /\ requests = <<>>
    /\ providerCalls = 0
    /\ responses = <<>>
    /\ invocations = <<>>
    /\ events = <<>>
    /\ sleeps = <<>>
    /\ warnings = <<>>
    /\ producerCalls = 0
    /\ aliases = NoAliases
    /\ parsed = <<>>
    /\ heap = <<>>
    /\ merges = <<>>
    /\ cli = NoCLI
    /\ toolLog = <<>>
    /\ other = NoRun

\* const args = parseArguments(toolCall.function.arguments), its outcome
\* (the value returned or the error thrown) noted.
ParseArguments ==
    /\ pc = "parse"
    /\ callIdx \in DOMAIN toolCalls
    /\ parsed' = Append(parsed, parseArguments(toolCalls[callIdx].arguments))
    /\ callIdx' = callIdx + 1
    /\ UNCHANGED <<inputs, pc, mode, consumer, activeAgent, context, history, attempt,
                   delay, toolCalls, response, genLocals, result, raised, runResult,
                   script, logs, aliases, other, heap, merges, cli, toolLog>>

SpecParse == InitParse /\ [][ParseArguments]_vars

(* ------------------------------------------------------------------ *)
(* The command-line interface                                           *)
(* ------------------------------------------------------------------ *)

\* What the user types at a prompt.
UserInputs == {"Hello"}

\* {role: MessageRole.User, content: userInput, sender: "user"}
UserMessage(userInput) == Msg("user", userInput, "user", Absent, NoCalls("absent"))

\* A CLI constructed with config {agent, stream}: start has not been
\* called, the readline interface is open.
NewCLI(agentName, streaming) ==
    [pc |-> "idle", agent |-> agentName, stream |-> streaming,
     messages |-> <<>>, activeAgent |-> Null,
     closed |-> FALSE, asked |-> 0, errors |-> <<>>, failure |-> NoError]

\* Everything but the command-line interface and the run it awaits.
beside == <<aliases, parsed, other, heap, merges, toolLog, runResult, script>>

\* The engine and the run in it.
engine == <<inputs, pc, mode, consumer, locals, genLocals, result, raised, logs>>

InitCLI ==
    /\ agent = "A"
    /\ messages = <<>>
    /\ contextVariables = EmptyCtx
    /\ maxTurns = Infinity
    /\ executeTools = TRUE
    /\ stream \in BOOLEAN
    /\ retryConfig = DefaultRetryConfig
    /\ pc = "idle"
    /\ mode = "run"
    /\ consumer = "none"
    /\ activeAgent = Null
    /\ context = EmptyCtx
    /\ history = <<>>
    /\ attempt = 0
    /\ delay = 0
    /\ toolCalls = <<>>
    /\ callIdx = 0
    /\ response = NoData
    /\ message = EmptyMap
    /\ chunks = <<>>
    /\ result = NoResult
    /\ raised = FALSE
    /\ runResult = NoResult
    /\ script = <<>>
    /\ requests = <<>>
    /\ providerCalls = 0
    /\ responses = <<>>
    /\ invocations = <<>>
    /\ events = <<>>
    /\ sleeps = <<>>
    /\ warnings = <<>>
    /\ producerCalls = 0
    /\ aliases = NoAliases
    /\ parsed = <<>>
    /\ other = NoRun
    /\ heap = <<>>
    /\ merges = <<>>
    /\ cli = NewCLI("A", stream)
    /\ toolLog = <<>>

\* CLI.start up to the loop: const messages = []; let activeAgent =
\* this.config.agent.
start ==
    /\ cli.pc = "idle"
    /\ cli' = [cli EXCEPT !.pc = "prompt", !.messages = <<>>, !.activeAgent = cli.agent]
    /\ UNCHANGED <<engine, beside>>

\* CLI.stop: this.rl.close().
stop ==
    /\ ~cli.closed
    /\ cli.pc \notin {"rejected"}
    /\ cli' = [cli EXCEPT !.closed = TRUE]
    /\ UNCHANGED <<engine, beside>>

\* What rl.question does on a closed interface: depending on the runtime it
\* throws ERR_USE_AFTER_CLOSE, which rejects the promise start awaits, or it
\* returns and never calls back.
QuestionOnClosed ==
    {[pc |-> "rejected", failure |-> JsError("Error", "readline was closed")],
     [pc |-> "waiting", failure |-> NoError]}

\* The head of the loop of start: rl.question is called and awaited.
CLI_Question ==
    /\ cli.pc = "prompt"
    /\ cli.closed \/ cli.asked < MaxPrompts
    /\ IF cli.closed
       THEN \E out \in QuestionOnClosed :
               cli' = [cli EXCEPT !.pc = out.pc, !.failure = out.failure,
                                  !.asked = @ + 1]
       ELSE cli' = [cli EXCEPT !.pc = "waiting", !.asked = @ + 1]
    /\ UNCHANGED <<engine, beside>>

\* The user answers the prompt: the user message is pushed and swarm.run
\* is called with the active agent, the messages, the configured context
\* mapping and the options {stream, executeTools: true}.
CLI_Answer ==
    /\ cli.pc = "waiting"
    /\ ~cli.closed
    /\ \E userInput \in UserInputs :
          LET pushed == Append(cli.messages, UserMessage(userInput)) IN
          /\ cli' = [cli EXCEPT !.pc = "running", !.messages = pushed]
          /\ messages' = pushed
    /\ agent' = cli.activeAgent
    /\ stream' = cli.stream
    /\ pc' = "start"
    /\ mode' = "run"
    /\ consumer' = "none"
    /\ activeAgent' = Null
    /\ context' = EmptyCtx
    /\ history' = <<>>
    /\ attempt' = 0
    /\ delay' = 0
    /\ toolCalls' = <<>>
    /\ callIdx' = 0
    /\ response' = NoData
    /\ message' = EmptyMap
    /\ chunks' = <<>>
    /\ result' = NoResult
    /\ raised' = FALSE
    /\ requests' = <<>>
    /\ providerCalls' = 0
    /\ responses' = <<>>
    /\ invocations' = <<>>
    /\ events' = <<>>
    /\ sleeps' = <<>>
    /\ warnings' = <<>>
    /\ producerCalls' = 0
    /\ UNCHANGED <<contextVariables, maxTurns, executeTools, retryConfig, beside>>

\* prettyPrintMessages(messages) throws when JSON.parse fails on the
\* arguments of a tool call of an assistant message.
PrettyPrintThrows(msgs) ==
    \E i \in DOMAIN msgs :
        /\ msgs[i].role = "assistant"
        /\ msgs[i].tool_calls.kind = "list"
        /\ \E j \in DOMAIN msgs[i].tool_calls.list :
              ~JsonParse(msgs[i].tool_calls.list[j].arguments).ok

\* The for-await loop of processStreamingResponse over the items left,
\* `current` being currentMessage ({} is NoMessage) and `collected` the
\* messages collected so far; then the last message is added.
RECURSIVE Collect(_, _, _)
Collect(items, current, collected) ==
    IF items = <<>>
    THEN IF current # NoMessage THEN Append(collected, current) ELSE collected
    ELSE LET chunk == Head(items)
             switch == chunk.sender # Absent
                          /\ (current = NoMessage \/ current.sender # chunk.sender)
             opened == IF switch
                       THEN Msg("assistant", "", chunk.sender, Absent, CallList(<<>>))
                       ELSE current
             worded == IF chunk.content # Null /\ opened # NoMessage
                       THEN [opened EXCEPT !.content = @ \o chunk.content]
                       ELSE opened
             called == IF chunk.tool_calls.kind = "list" /\ worded # NoMessage
                       THEN [worded EXCEPT !.tool_calls.list =
                                @ \o SelectSeq(chunk.tool_calls.list,
                                               LAMBDA call : call.name # "")]
                       ELSE worded
         IN  Collect(Tail(items), called,
                     IF switch /\ current # NoMessage THEN Append(collected, current)
                     ELSE collected)

\* processStreamingResponse(response.data.messages): what run resolved to
\* with stream set is a list, not the generator; the loop runs over its
\* items (none, for the placeholder of runStream).
processStreamingResponse(msgs) == Collect(msgs, NoMessage, <<>>)

\* activeAgent = response.data.agent || activeAgent
NextAgent(returned, current) == IF returned # Null THEN returned ELSE current

\* swarm.run has returned: the rest of the iteration of the loop of start.
CLI_Response ==
    /\ cli.pc = "running"
    /\ pc = "done"
    /\ pc' = "idle"
    /\ IF raised
       THEN cli' = [cli EXCEPT !.pc = "rejected",
                               !.failure = JsError("Error", "run raised")]
       ELSE IF ~result.success \/ ~result.hasData
       THEN cli' = [cli EXCEPT !.pc = "prompt", !.errors = Append(@, result.error)]
       ELSE IF cli.stream
       THEN cli' = [cli EXCEPT
                      !.pc = "prompt",
                      !.messages = @ \o processStreamingResponse(result.data.messages),
                      !.activeAgent = NextAgent(result.data.agent, @)]
       ELSE IF PrettyPrintThrows(result.data.messages)
       THEN cli' = [cli EXCEPT !.pc = "rejected",
                               !.failure = JsError("SyntaxError", "Unexpected token")]
       ELSE cli' = [cli EXCEPT
                      !.pc = "prompt",
                      !.messages = @ \o result.data.messages,
                      !.activeAgent = NextAgent(result.data.agent, @)]
    /\ UNCHANGED <<inputs, mode, consumer, locals, genLocals, result, raised, logs, beside>>

NextCLI == start \/ stop \/ CLI_Question \/ CLI_Answer \/ CLI_Response \/ Next

SpecCLI == InitCLI /\ [][NextCLI]_vars

(* ------------------------------------------------------------------ *)
(* mergeFields alone, on objects held by reference                      *)
(* ------------------------------------------------------------------ *)

\* The object merged into: the first object of the heap.
TargetObject == 1

\* Targets: a fresh in-progress message, and an object that holds text, a
\* number and a nested mapping.
FrameTargets ==
    {("content" :> JStr("")) @@ ("sender" :> JStr("A")) @@ ("role" :> JStr("assistant"))
        @@ ("tool_calls" :> JNull),
     ("content" :> JStr("Hel")) @@ ("count" :> JNum("5"))
        @@ ("nested" :> JObj(("text" :> JStr("a")) @@ ("count" :> JNum("1"))))}

\* Sources: text, a number, booleans, null, nested mappings (one of them two
\* levels deep, one a list) and a mixture.
FrameSources ==
    {"content" :> JStr("lo"),
     "count" :> JNum("7"),
     "flag" :> JBool(TRUE),
     "content" :> JBool(FALSE),
     "content" :> JNull,
     "nested" :> JObj("text" :> JStr("b")),
     "nested" :> JObj(("count" :> JNum("2")) @@ ("deeper" :> JObj("text" :> JStr("c")))),
     "tool_calls" :> JArr(<<JObj("id" :> JStr("abc"))>>),
     ("content" :> JStr("x")) @@ ("count" :> JNum("1"))
        @@ ("nested" :> JObj("text" :> JStr("b")))}

InitFields ==
    /\ agent = "A"
    /\ messages = InitialMessages
    /\ contextVariables = EmptyCtx
    /\ maxTurns = Infinity
    /\ executeTools = TRUE
    /\ stream = FALSE
    /\ retryConfig = DefaultRetryConfig
    /\ mode \in {"fields", "chunks"}
    /\ pc = mode
    /\ consumer = "none"
    /\ activeAgent = Null
    /\ context = EmptyCtx
    /\ history = <<>>
    /\ attempt = 0
    /\ delay = 0
    /\ toolCalls = <<>>
    /\ callIdx = 0
    /\ response = NoData
    /\ message = EmptyMap
    /\ chunks = <<>>
    /\ result = NoResult
    /\ raised = FALSE
    /\ runResult = NoResult
    /\ script = <<>>
    /\ requests = <<>>
    /\ providerCalls = 0
    /\ responses = <<>>
    /\ invocations = <<>>
    /\ events = <<>>
    /\ sleeps = <<>>
    /\ warnings = <<>>
    /\ producerCalls = 0
    /\ aliases = NoAliases
    /\ parsed = <<>>
    /\ other = NoRun
    /\ heap \in {Alloc(<<>>, target) : target \in FrameTargets}
    /\ merges = <<>>
    /\ cli = NoCLI
    /\ toolLog = <<>>

\* One call mergeFields(target, source) with a source built for the call.
MergeFieldsCall ==
    /\ pc = "fields"
    /\ Len(merges) < MaxMerges
    /\ \E literal \in FrameSources :
          LET before == Alloc(heap, literal)
              source == Len(heap) + 1
          IN  /\ heap' = mergeFieldsAt(before, TargetObject, source, DOMAIN before[source])
              /\ merges' = Append(merges, [source |-> source, before |-> before])
    /\ UNCHANGED <<inputs, pc, mode, consumer, locals, genLocals, result, raised,
                   runResult, script, logs, aliases, parsed, other, cli, toolLog>>

\* The deltas mergeChunk is called with: with and without a role, with text
\* and with one tool-call fragment.
RoleDeltas ==
    {"content" :> JStr("lo")}
    \cup {"role" :> JStr(role) : role \in {"assistant", "user"}}
    \cup {("role" :> JStr(role)) @@ ("content" :> JStr("lo")) : role \in {"assistant", "tool"}}
    \cup {("role" :> JStr("assistant"))
             @@ ("tool_calls" :> JArr(<<JObj(("index" :> JNum(index)) @@ ("id" :> JStr("abc"))
                    @@ ("type" :> JStr("function"))
                    @@ ("function" :> JObj(("name" :> JStr("echo"))
                                           @@ ("arguments" :> JStr(""))))) >>)) :
           index \in {"0", "1"}}

\* One call mergeChunk(finalResponse, delta) with a delta built for the call.
MergeChunkCall ==
    /\ pc = "chunks"
    /\ Len(merges) < MaxMerges
    /\ \E literal \in RoleDeltas :
          LET before == Alloc(heap, literal)
              delta == Len(heap) + 1
          IN  /\ heap' = mergeChunkAt(before, TargetObject, delta)
              /\ merges' = Append(merges, [source |-> delta, before |-> before])
    /\ UNCHANGED <<inputs, pc, mode, consumer, locals, genLocals, result, raised,
                   runResult, script, logs, aliases, parsed, other, cli, toolLog>>

NextFields == MergeFieldsCall \/ MergeChunkCall

SpecFields == InitFields /\ [][NextFields]_vars

(* ------------------------------------------------------------------ *)
(* handleToolCalls with the await of each tool exposed                  *)
(* ------------------------------------------------------------------ *)

\* The non-streaming run in which a tool invocation takes two steps: the
\* tool is called, and later its promise settles.  callIdx is the position
\* of the iterator of the for-of loop: the index of the call the next
\* iteration takes.  toolLog records the invocations and their settling.
InitTools == InitCommon /\ stream = FALSE

LogEntry(op, idx) ==
    [op |-> op, idx |-> idx, id |-> toolCalls[idx].id, turn |-> Len(requests),
     parallel |-> Agents[activeAgent].parallelToolCalls]

\* A variant of AwaitTool in which the loop goes on without awaiting the
\* tool it called.
AwaitSkipped == "dispatch"

\* const result = await func(args): handleToolCalls is suspended until the
\* tool has settled.
AwaitTool == "tool"

\* One iteration of the loop of handleToolCalls up to the call of the
\* tool: an unregistered tool gets its error message and the loop
\* continues; arguments that do not parse end the dispatch; else the tool
\* is called and awaited.
Tool_Next ==
    /\ pc = "dispatch"
    /\ callIdx <= Len(toolCalls)
    /\ callIdx' = callIdx + 1
    /\ LET toolCall == toolCalls[callIdx]
           h == HandleToolCall(toolCall, activeAgent, context, response)
       IN  CASE h.step = "notfound" ->
                    /\ response' = h.response
                    /\ UNCHANGED <<pc, result, raised, invocations, toolLog>>
             [] h.step = "parse" ->
                    /\ Return(CatchAll(h.error))
                    /\ UNCHANGED <<response, invocations, toolLog>>
             [] OTHER ->
                    /\ invocations' = Append(invocations,
                                             InvocationOf(toolCall, context, Len(requests)))
                    /\ toolLog' = Append(toolLog, LogEntry("invoke", callIdx))
                    /\ pc' = AwaitTool
                    /\ UNCHANGED <<response, result, raised>>
    /\ UNCHANGED <<inputs, aliases, producerCalls, parsed, other, heap, merges, cli,
                   mode, consumer, activeAgent, context, history, attempt, delay, toolCalls,
                   genLocals, runResult, script, requests, providerCalls, responses,
                   events, sleeps, warnings>>

\* The awaited tool settles: its result is pushed as a tool message and
\* the loop goes on, or its error is rethrown as a ToolExecutionError.
Tool_Settle ==
    /\ pc = "tool"
    /\ LET idx == toolLog[Len(toolLog)].idx
           h == HandleToolCall(toolCalls[idx], activeAgent, context, response)
       IN  /\ toolLog' = Append(toolLog, LogEntry("settle", idx))
           /\ IF h.threw
              THEN /\ Return(CatchAll(h.error))
                   /\ UNCHANGED response
              ELSE /\ response' = h.response
                   /\ pc' = "dispatch"
                   /\ UNCHANGED <<result, raised>>
    /\ UNCHANGED <<inputs, aliases, producerCalls, parsed, other, heap, merges, cli,
                   mode, consumer, activeAgent, context, history, attempt, delay, toolCalls,
                   callIdx, genLocals, runResult, script, requests, providerCalls,
                   responses, invocations, events, sleeps, warnings>>

\* The loop is over: handleToolCalls returns {success: true, data: response}
\* and run takes the result over.
Tool_Return ==
    /\ pc = "dispatch"
    /\ callIdx > Len(toolCalls)
    /\ AfterDispatch(history, Success(response))
    /\ UNCHANGED <<inputs, aside, aliases, producerCalls,
                   mode, consumer, attempt, delay, toolCalls, callIdx, response, genLocals,
                   runResult, script, requests, providerCalls, responses, invocations,
                   events, sleeps, warnings>>

NextTools == run \/ Run_LoopHead \/ Run_Attempt \/ Tool_Next \/ Tool_Settle \/ Tool_Return

SpecTools == InitTools /\ [][NextTools]_vars

(* ------------------------------------------------------------------ *)
(* Properties                                                           *)
(* ------------------------------------------------------------------ *)

Last(seq) == seq[Len(seq)]

Done == pc = "done"

\* The k-th provider answer is a message without tool calls.
AnsweredWithoutCalls(k) ==
    /\ Len(responses) >= k
    /\ responses[k].kind = "ok"
    /\ responses[k].message.tool_calls.kind \in {"null", "absent"}

\* C1: in a non-streaming run, when the first completion's assistant
\* message carries no tool calls (null or absent), the run is over after
\* that one completion request: no tool was invoked and the result is a
\* success whose messages are exactly that assistant message (labelled with
\* the agent's name as sender).
C1_NoToolCallsEndsAfterOneTurn ==
    (~stream /\ AnsweredWithoutCalls(1)) =>
        /\ Done
        /\ ~raised
        /\ Len(requests) = 1
        /\ providerCalls = 1
        /\ invocations = <<>>
        /\ result.success
        /\ Len(result.data.messages) = 1
        /\ result.data.messages[1] =
              [responses[1].message EXCEPT !.sender = Agents[agent].name]

\* C1 witness: agent A, maxTurns = 1, user message "hi", the provider
\* answers "hello" with tool_calls null.
C1_Witness ==
    /\ Done /\ ~stream /\ agent = "A" /\ maxTurns = 1
    /\ messages[1].content = "hi"
    /\ AnsweredWithoutCalls(1)
    /\ responses[1].message.tool_calls.kind = "null"
    /\ result.success
    /\ result.data.messages =
          <<[role |-> "assistant", content |-> "hello", sender |-> "A",
             tool_call_id |-> Absent, tool_calls |-> [kind |-> "null", list |-> <<>>]]>>

\* C2: when a completion request fails (the provider call failed), it is
\* the last request of the run: the run is over, its result is that very
\* failure (the APIError the client produced), it carries no data (none of
\* the history built so far), no request and no tool invocation follows,
\* and the caller's message list is as it was.
C2_CompletionFailureReturnedAtOnce ==
    \A k \in DOMAIN responses :
        responses[k].kind = "throw" =>
            /\ k = Len(responses)
            /\ Len(requests) = k
            /\ Done
            /\ ~raised
            /\ ~result.success
            /\ result.error = [name |-> "APIError", code |-> "API_ERROR",
                               class |-> "APIError", text |-> "OpenAI API call failed"]
            /\ ~result.hasData
            /\ result.data.messages = <<>>
            /\ messages = InitialMessages

\* C2 witness: the second completion request of a run fails after a first
\* turn that dispatched a tool.
C2_Witness ==
    /\ Done /\ ~stream
    /\ Len(responses) = 2 /\ responses[2].kind = "throw"
    /\ Len(history) > Len(messages)
    /\ invocations # <<>>
    /\ ~result.success

\* C3, as claimed: when the body of a registered tool throws during a
\* dispatch, the run is over with a failure tagged TOOL_EXECUTION_ERROR
\* that is an instance of ToolExecutionError; the remaining calls of the
\* dispatch were not invoked and no further request is made.
C3_ToolThrowTaggedToolExecutionError ==
    (invocations # <<>> /\ Tools[Last(invocations).tool].does = "throw") =>
        /\ Done
        /\ ~result.success
        /\ result.error.code = "TOOL_EXECUTION_ERROR"
        /\ result.error.class = "ToolExecutionError"
        /\ Last(invocations).id = toolCalls[callIdx].id
        /\ Last(invocations).turn = Len(requests)
        /\ Len(requests) = Len(responses)

\* The call being dispatched (or the one the dispatch stopped at) names a
\* registered tool and its arguments payload does not parse.
AtUnparsableCall ==
    /\ callIdx \in DOMAIN toolCalls
    /\ pc \in {"dispatch", "done"}
    /\ toolCalls[callIdx].name \in Range(Agents[activeAgent].functions)
    /\ toolCalls[callIdx].arguments = "not json"

\* C4, as claimed: when the arguments of a call to a registered tool do
\* not parse, the tool is not invoked and the run aborts with a failure
\* tagged VALIDATION_ERROR, without another attempt.
C4_ParseFailureTaggedValidationError ==
    (Done /\ ~stream /\ AtUnparsableCall) =>
        /\ ~result.success
        /\ result.error.code = "VALIDATION_ERROR"
        /\ \A i \in DOMAIN invocations :
              ~(invocations[i].turn = Len(requests)
                /\ invocations[i].id = toolCalls[callIdx].id)
        /\ Len(requests) = Len(responses)

\* The call being dispatched names no tool of the active agent.
AtUnknownCall ==
    /\ pc = "dispatch"
    /\ toolCalls[callIdx].name \notin Range(Agents[activeAgent].functions)

\* The tool-role message the dispatch answers an unknown call with.
UnknownToolReply(toolCall) ==
    [role |-> "tool", content |-> "Error: Tool " \o toolCall.name \o " not found.",
     sender |-> Absent, tool_call_id |-> toolCall.id,
     tool_calls |-> [kind |-> "absent", list |-> <<>>]]

\* The step of a dispatch over a call that names an unregistered tool:
\* one error message is appended, nothing is invoked, no result is set.
C5_UnknownCallStep ==
    AtUnknownCall =>
        /\ invocations' = invocations
        /\ result' = result
        /\ raised' = raised
        /\ pc' # "done"
        /\ IF callIdx < Len(toolCalls)
           THEN /\ pc' = "dispatch"
                /\ callIdx' = callIdx + 1
                /\ response'.messages =
                      Append(response.messages, UnknownToolReply(toolCalls[callIdx]))
                /\ history' = history
           ELSE /\ pc' = "loop"
                /\ history' = history \o Append(response.messages,
                                                UnknownToolReply(toolCalls[callIdx]))

\* The step at the head of the loop after a dispatch: while the loop
\* condition admits another pass, the next completion request is made
\* (unless the agent's instructions producer throws).
C5_NextTurnStep ==
    (/\ pc = "loop"
     /\ Len(history) > Len(messages)
     /\ (maxTurns = Infinity \/ Len(history) - Len(messages) < maxTurns)) =>
        \/ /\ pc' = "attempt"
           /\ Len(requests') = Len(requests) + 1
           /\ Last(requests').messages = <<Head(Last(requests').messages)>> \o history
        \/ /\ Agents[activeAgent].dynamic
           /\ pc' = "done"
           /\ ~result'.success

\* C5: a tool call naming a tool that is not registered on the active
\* agent is recoverable.  The dispatch step over such a call appends
\* exactly one tool-role error message keyed to the call's id, invokes
\* nothing, neither ends the run nor sets a failure, and moves on to the
\* next call of the same dispatch; after the last call the messages join
\* the history and the loop head makes the next turn's completion request
\* whenever its condition admits another pass.
C5_UnknownToolIsRecoverable == [][C5_UnknownCallStep /\ C5_NextTurnStep]_vars

\* C5 witness: a dispatch of two calls, the first to the unregistered tool
\* "ghost" and the second to "echo"; the run went on to a second request
\* and succeeded.
C5_Witness ==
    /\ Done /\ ~stream /\ result.success
    /\ Len(requests) = 2
    /\ Len(result.data.messages) = 4
    /\ result.data.messages[2] =
          UnknownToolReply([name |-> "ghost", id |-> "call-1"])
    /\ result.data.messages[3].role = "tool"
    /\ result.data.messages[3].content = "ok"
    /\ result.data.messages[4].role = "assistant"

\* A tool that returns an agent has been invoked in this run.
HandoffTargets ==
    {Tools[invocations[i].tool].agent :
        i \in {j \in DOMAIN invocations : Tools[invocations[j].tool].does = "agent"}}

\* C6, as claimed: once a tool invoked during a run has returned a value
\* naming agent B, the dispatch has recorded B as the new active agent,
\* the next turn's completion request carries B's instructions as its
\* system message, and a successful result reports B as the agent.
C6_HandoffSwitchesAgent ==
    (~stream /\ HandoffTargets = {"B"}) =>
        /\ (pc = "dispatch" => (response.agent = "B" \/ activeAgent = "B"))
        /\ (pc \in {"loop", "attempt"} => activeAgent = "B")
        /\ (pc = "attempt" =>
               Head(Last(requests).messages).content = Agents["B"].instructions)
        /\ (Done /\ result.success => result.data.agent = "B")

\* The context-variable delta of the latest invoked tool that returns one.
LatestDelta ==
    LET with == {j \in DOMAIN invocations : Tools[invocations[j].tool].does = "vars"}
        latest == CHOOSE j \in with : \A i \in with : i <= j
    IN  Tools[invocations[latest].tool].vars

DeltaReturned == \E j \in DOMAIN invocations : Tools[invocations[j].tool].does = "vars"

\* C7, as claimed: once a tool has returned a context-variable delta, its
\* keys are in the dispatch accumulator, then in the run's running
\* mapping, and in the contextVariables of a successful result.
C7_ContextDeltaMerged ==
    (~stream /\ DeltaReturned) =>
        /\ (pc = "dispatch" =>
               (response.contextVariables["k"] = LatestDelta["k"]
                \/ context["k"] = LatestDelta["k"]))
        /\ (pc \in {"loop", "attempt"} => context["k"] = LatestDelta["k"])
        /\ (Done /\ result.success =>
               result.data.contextVariables["k"] = LatestDelta["k"])

\* C8, as claimed: the loop counts turns.  A run never makes more than
\* maxTurns completion requests, and a run that ended successfully right
\* after a turn with dispatched tool calls has made exactly maxTurns
\* requests (it stopped only because no turn was left).
C8_LoopCountsTurns ==
    (~stream /\ maxTurns # Infinity) =>
        /\ Len(requests) <= maxTurns
        /\ (/\ Done /\ result.success /\ executeTools
            /\ responses # <<>>
            /\ Last(responses).message.tool_calls.kind = "list"
            /\ Last(responses).message.tool_calls.list # <<>>)
           => Len(requests) = maxTurns

\* C9: run and runStream never raise.  Whatever the provider, the
\* instructions producer and the tools do, a call that is over has handed
\* its caller a Result: success with data, or failure with an error that
\* carries one of the error tags.
C9_NeverRaises ==
    Done =>
        /\ ~raised
        /\ \/ result.success /\ result.hasData /\ result.error = NoError
           \/ /\ ~result.success
              /\ ~result.hasData
              /\ result.error.code \in
                    {"VALIDATION_ERROR", "API_ERROR", "TOOL_EXECUTION_ERROR",
                     "TIMEOUT_ERROR", "UNKNOWN_ERROR"}

\* C9 witness: a tool body threw during a dispatch and the caller of run
\* received a failure result.
C9_Witness ==
    /\ Done /\ ~stream /\ ~raised
    /\ invocations # <<>>
    /\ Tools[Last(invocations).tool].does = "throw"
    /\ ~result.success
    /\ result.error.code = "UNKNOWN_ERROR"

\* Two tool-call fields carry the same calls (null, absent and the empty
\* list all carry none).
SameCalls(a, b) == a.list = b.list

SameMessage(a, b) ==
    /\ a.role = b.role
    /\ a.content = b.content
    /\ a.sender = b.sender
    /\ a.tool_call_id = b.tool_call_id
    /\ SameCalls(a.tool_calls, b.tool_calls)

SameResult(a, b) ==
    /\ a.success = b.success
    /\ a.hasData = b.hasData
    /\ a.data.agent = b.data.agent
    /\ a.data.contextVariables = b.data.contextVariables
    /\ Len(a.data.messages) = Len(b.data.messages)
    /\ \A i \in DOMAIN a.data.messages :
          i \in DOMAIN b.data.messages
          /\ SameMessage(a.data.messages[i], b.data.messages[i])

\* The result is the failure of the agent's instructions producer.
InstructionsThrew(res) == ~res.success /\ res.error.text = "instructions failed"

\* C10, as claimed: the streaming run, given the arguments of the
\* non-streaming run and a provider that streams in fragments the answers
\* it gave that run (the instructions producer throwing in neither),
\* resolves once drained to the same terminal Result.
C10_StreamingResolvesToSameResult ==
    (/\ Done /\ mode = "gen" /\ consumer = "drain"
     /\ Len(responses) <= Len(script)
     /\ ~InstructionsThrew(result)
     /\ ~InstructionsThrew(runResult)) =>
        SameResult(result, runResult)

Smaller(a, b) == IF a <= b THEN a ELSE b

\* C12: the backoff sequence of retry.  The first sleep lasts
\* initialDelay and every later sleep lasts min(2 * previous, maxDelay);
\* with initialDelay = 1000 and maxDelay = 10000 the sleeps are 1000,
\* 2000, 4000, 8000 and 10000 from then on.
C12_BackoffSequence ==
    /\ \A i \in DOMAIN sleeps :
          sleeps[i] = IF i = 1 THEN retryConfig.initialDelay
                      ELSE Smaller(2 * sleeps[i - 1], retryConfig.maxDelay)
    /\ (retryConfig.initialDelay = 1000 /\ retryConfig.maxDelay = 10000) =>
          \A i \in DOMAIN sleeps :
              sleeps[i] = CASE i = 1 -> 1000
                            [] i = 2 -> 2000
                            [] i = 3 -> 4000
                            [] i = 4 -> 8000
                            [] OTHER -> 10000

\* C12 witness: seven failing attempts with the default delays.
C12_Witness ==
    /\ mode = "retry"
    /\ retryConfig.initialDelay = 1000
    /\ retryConfig.maxDelay = 10000
    /\ sleeps = <<1000, 2000, 4000, 8000, 10000, 10000>>

\* C13, as claimed: for every retry configuration, initialDelay greater
\* than maxDelay included, no sleep of retry lasts longer than maxDelay.
C13_NoSleepLongerThanMaxDelay ==
    mode = "retry" => \A i \in DOMAIN sleeps : sleeps[i] <= retryConfig.maxDelay

\* C14: retry invokes the operation at most maxRetries times.  A value
\* returned by an attempt is returned at once, every earlier attempt
\* having failed, been logged and been followed by one sleep.  When all
\* maxRetries >= 1 attempts fail, retry has slept maxRetries - 1 times
\* (not after the last attempt), logged one warning per failed attempt,
\* and throws the failure of the last attempt.
C14_AtMostMaxRetriesAttempts ==
    mode = "retry" =>
        /\ providerCalls <= retryConfig.maxRetries
        /\ \A i \in DOMAIN warnings : warnings[i] = i
        /\ Len(warnings) <= providerCalls
        /\ (Done /\ ~raised) =>
              /\ result \in {Success(NoData), Failure(APIError("OpenAI API call failed"))}
              /\ Len(warnings) = providerCalls - 1
              /\ Len(sleeps) = providerCalls - 1
        /\ (Done /\ raised /\ retryConfig.maxRetries >= 1) =>
              /\ providerCalls = retryConfig.maxRetries
              /\ Len(sleeps) = retryConfig.maxRetries - 1
              /\ Len(warnings) = retryConfig.maxRetries
              /\ ~result.success
              /\ result.error.text =
                    "attempt " \o ToString(retryConfig.maxRetries) \o " failed"
        /\ ~Done => (Len(warnings) = providerCalls /\ Len(sleeps) = providerCalls)

\* C14 witness: maxRetries = 3 and three failing attempts.
C14_Witness ==
    /\ mode = "retry" /\ Done /\ raised
    /\ retryConfig.maxRetries = 3
    /\ providerCalls = 3
    /\ Len(sleeps) = 2
    /\ warnings = <<1, 2, 3>>
    /\ result.error.text = "attempt 3 failed"

\* The number of provider calls that failed in a row up to the latest.
RECURSIVE FailedInARow(_)
FailedInARow(resps) ==
    IF resps = <<>> \/ Last(resps).kind # "throw" THEN 0
    ELSE 1 + FailedInARow(SubSeq(resps, 1, Len(resps) - 1))

\* C15, as claimed: a completion request is retried with backoff.  A run
\* is over with the failure of the provider only after the provider call
\* has failed maxRetries times in a row, with a sleep between the
\* attempts; after fewer failures the request is tried again.
C15_CompletionRequestIsRetried ==
    (responses # <<>> /\ Last(responses).kind = "throw") =>
        IF FailedInARow(responses) < retryConfig.maxRetries
        THEN ~Done /\ Len(sleeps) >= FailedInARow(responses)
        ELSE /\ Done
             /\ ~result.success
             /\ result.error.code = "API_ERROR"
             /\ providerCalls >= retryConfig.maxRetries

\* C16: createChatCompletion never throws.  For every answer of the
\* provider's client library in a run: it is wrapped as a success whose
\* data is the raw response, or, when the library threw, converted to a
\* failure carrying an APIError (code API_ERROR) whose cause is what the
\* library threw.  Each invocation makes one provider call: retry, seeing
\* no exception, never sleeps, warns or calls again, so there is one
\* provider call per completion request.
C16_ClientNeverThrows ==
    /\ \A k \in DOMAIN responses :
          LET completion == createChatCompletion(responses[k]) IN
          /\ ~completion.threw
          /\ IF responses[k].kind = "throw"
             THEN /\ ~completion.success
                  /\ completion.error.code = "API_ERROR"
                  /\ completion.error.class = "APIError"
                  /\ completion.cause = [name |-> "Error", code |-> "", class |-> "Error",
                                         text |-> "provider call threw"]
             ELSE /\ completion.success
                  /\ completion.data = responses[k]
    /\ mode \in {"run", "gen"} =>
          /\ sleeps = <<>>
          /\ warnings = <<>>
          /\ providerCalls = Len(responses)
          /\ providerCalls =
                IF pc \in {"attempt", "gen_attempt"} THEN Len(requests) - 1
                ELSE Len(requests)
          /\ (responses # <<>> /\ Last(responses).kind = "throw") =>
                (Done /\ ~raised /\ result.error.code = "API_ERROR")

\* C16 witness: the provider's client library threw at the first call of
\* a run and the run received the failed Result.
C16_Witness ==
    /\ ~stream /\ Done /\ ~raised
    /\ providerCalls = 1
    /\ Len(responses) = 1
    /\ responses[1].kind = "throw"
    /\ ~result.success
    /\ result.error.class = "APIError"
    /\ sleeps = <<>>

\* The deltas merged so far, in order, and their tool-call fragments.
MergedDeltas == [i \in DOMAIN events |-> events[i].delta]

HasFragment(delta) == "tool_calls" \in DOMAIN delta

FragmentOf(delta) == delta["tool_calls"].o["0"].o

FragmentsMerged ==
    LET with == {i \in DOMAIN events : HasFragment(MergedDeltas[i])} IN
    [i \in with |-> FragmentOf(MergedDeltas[i])]

\* All fragments merged so far are for the tool-call index `key`, and
\* there is one.
OnlyIndex(key) ==
    /\ mode = "merge"
    /\ DOMAIN FragmentsMerged # {}
    /\ \A i \in DOMAIN FragmentsMerged : FragmentsMerged[i]["index"].s = key

\* The record of the accumulator for the tool-call index `key`.
RecordAt(key) == message["tool_calls"].o[key].o

\* The text the fragments up to position n supplied at `path`, in order.
RECURSIVE TextSupplied(_, _)
TextSupplied(path, n) ==
    IF n = 0 THEN ""
    ELSE TextSupplied(path, n - 1)
         \o (IF n \in DOMAIN FragmentsMerged
             THEN LET f == FragmentsMerged[n] IN
                  IF Len(path) = 1
                  THEN (IF path[1] \in DOMAIN f THEN f[path[1]].s ELSE "")
                  ELSE (IF path[1] \in DOMAIN f /\ path[2] \in DOMAIN f[path[1]].o
                        THEN f[path[1]].o[path[2]].s ELSE "")
             ELSE "")

\* The id of the latest fragment that supplied one, "" when none did.
LatestIdSupplied ==
    LET with == {i \in DOMAIN FragmentsMerged : "id" \in DOMAIN FragmentsMerged[i]} IN
    IF with = {} THEN ""
    ELSE FragmentsMerged[CHOOSE i \in with : \A j \in with : j <= i]["id"].s

IdsSupplied ==
    {FragmentsMerged[i]["id"].s :
        i \in {j \in DOMAIN FragmentsMerged : "id" \in DOMAIN FragmentsMerged[j]}}

\* The text a record holds at `path`, "" when it holds none.
TextAt(record, path) ==
    IF path[1] \notin DOMAIN record THEN ""
    ELSE IF Len(path) = 1 THEN record[path[1]].s
    ELSE IF path[2] \in DOMAIN record[path[1]].o THEN record[path[1]].o[path[2]].s
    ELSE ""

\* C17: mergeChunk keeps tool-call ids stable.  After merging any
\* sequence of deltas whose fragments are all for one tool-call index, the
\* id of the record at that index is the id of the most recent fragment
\* that supplied one (no id text when none did): a fragment without an id
\* neither clears nor changes it.
C17_ToolCallIdStable ==
    \A key \in {"0", "1"} :
        OnlyIndex(key) =>
            /\ key \in DOMAIN message["tool_calls"].o
            /\ TextAt(RecordAt(key), <<"id">>) = LatestIdSupplied

\* C17 witness: a head fragment with id "abc" followed by an arguments
\* fragment without an id, both for index 0.
C17_Witness ==
    /\ OnlyIndex("0")
    /\ chunks = <<>>
    /\ DOMAIN FragmentsMerged = {1, 2}
    /\ "id" \in DOMAIN FragmentsMerged[1]
    /\ FragmentsMerged[1]["id"].s = "abc"
    /\ "id" \notin DOMAIN FragmentsMerged[2]
    /\ RecordAt("0")["id"].s = "abc"

\* C18, as claimed: mergeChunk accumulates streamed text exactly once.
\* After merging a sequence of deltas whose fragments are all for one
\* tool-call index, the name, the arguments and the type of the record at
\* that index are the in-order concatenations of the fragments' names,
\* arguments and types.
C18_TextAccumulatedOnce ==
    \A key \in {"0", "1"} :
        OnlyIndex(key) =>
            /\ key \in DOMAIN message["tool_calls"].o
            /\ TextAt(RecordAt(key), <<"function", "name">>) =
                  TextSupplied(<<"function", "name">>, Len(events))
            /\ TextAt(RecordAt(key), <<"function", "arguments">>) =
                  TextSupplied(<<"function", "arguments">>, Len(events))
            /\ TextAt(RecordAt(key), <<"type">>) = TextSupplied(<<"type">>, Len(events))

\* C19, as claimed: in any sequence of mergeChunk calls on one message,
\* the id of every record of the tool-call accumulator is empty or one of
\* the ids a delta supplied, never a concatenation of supplied ids.
C19_IdNeverConcatenated ==
    (mode = "merge" /\ message["tool_calls"].t # "null") =>
        \A key \in DOMAIN message["tool_calls"].o :
            "id" \in DOMAIN message["tool_calls"].o[key].o =>
                message["tool_calls"].o[key].o["id"].s \in IdsSupplied \cup {""}

\* A source that holds `text` at one key: at the top level (1), at a key
\* the message does not have (2), at the key of the tool-call accumulator
\* (3), and nested in mappings (4, 5).
TextSource(shape, text) ==
    CASE shape = 1 -> ("content" :> JStr(text))
      [] shape = 2 -> ("refusal" :> JStr(text))
      [] shape = 3 -> ("tool_calls" :> JStr(text))
      [] shape = 4 ->
            ("tool_calls" :> JObj("0" :> JObj("function" :> JObj("name" :> JStr(text)))))
      [] OTHER -> ("audio" :> JObj("transcript" :> JStr(text)))

TextPieces == {"", "Hel", "lo"}

\* The text of the content deltas merged so far, in order.
RECURSIVE ContentSupplied(_)
ContentSupplied(n) ==
    IF n = 0 THEN ""
    ELSE ContentSupplied(n - 1)
         \o (IF "content" \in DOMAIN MergedDeltas[n] THEN MergedDeltas[n]["content"].s
             ELSE "")

\* C20: mergeFields text concatenation is associative.  For every
\* message accumulated from a stream and text fragments a and b at the
\* same key,
\* merging a and then b yields the same message as merging a \o b at
\* once, also for text nested in mappings; and the message reached by
\* merging content fragments one by one is the one reached by merging
\* their concatenation.
C20_MergeFieldsAssociative ==
    (mode = "merge" /\ chunks = <<>>) =>
        /\ \A shape \in 1..5, a \in TextPieces, b \in TextPieces :
              mergeFields(mergeFields(message, TextSource(shape, a)), TextSource(shape, b))
                 = mergeFields(message, TextSource(shape, a \o b))
        /\ (\A i \in DOMAIN events : ~HasFragment(MergedDeltas[i])) =>
              message = mergeFields(NewStreamMessage("A"),
                                    "content" :> JStr(ContentSupplied(Len(events))))

\* C20 witness: "Hel" and then "lo" merged into the empty content.
C20_Witness ==
    /\ mode = "merge"
    /\ chunks = <<>>
    /\ Len(events) = 2
    /\ MergedDeltas[1] = ("content" :> [t |-> "str", s |-> "Hel", o |-> EmptyMap])
    /\ MergedDeltas[2] = ("content" :> [t |-> "str", s |-> "lo", o |-> EmptyMap])
    /\ message["content"].s = "Hello"

\* The mapping a JSON object text of the model encodes.
Encoded(text) ==
    CASE text = "{}" -> [k \in {} |-> ""]
      [] text = "{\"x\":\"1\"}" -> [k \in {"x"} |-> "1"]
      [] OTHER -> [k \in {"x", "y"} |-> IF k = "x" THEN "1" ELSE "2"]

ObjectTexts == {"{}", "{\"x\":\"1\"}", "{\"x\":\"1\",\"y\":\"2\"}"}

NotJsonTexts == {"not json", "invalid json", "{"}

\* C21: parseArguments.  The text "{}" yields the empty mapping and a
\* JSON object text the mapping it encodes; a text that is not JSON makes
\* it throw a ValidationError (code VALIDATION_ERROR) whose message ends
\* with the literal input text and whose cause is the SyntaxError of
\* JSON.parse.
C21_ParseArguments ==
    \A i \in DOMAIN parsed :
        LET text == toolCalls[i].arguments
            out == parsed[i]
        IN  /\ text = "{}" => (~out.threw /\ DOMAIN out.value = {})
            /\ text \in ObjectTexts =>
                  (~out.threw /\ out.kind = "object" /\ out.value = Encoded(text)
                   /\ out.error.code = "")
            /\ text \in NotJsonTexts =>
                  /\ out.threw
                  /\ out.error.code = "VALIDATION_ERROR"
                  /\ out.error.class = "ValidationError"
                  /\ out.error.name = "ValidationError"
                  /\ out.error.text = "Failed to parse function arguments: " \o text
                  /\ out.cause.name = "SyntaxError"
                  /\ out.cause.class = "SyntaxError"

\* C21 witness: "{}" parsed to the empty mapping, then "not json" refused.
C21_Witness ==
    /\ mode = "parse"
    /\ Len(parsed) = 2
    /\ toolCalls[1].arguments = "{}"
    /\ toolCalls[2].arguments = "not json"
    /\ ~parsed[1].threw
    /\ parsed[2].threw
    /\ parsed[2].error.text = "Failed to parse function arguments: not json"

\* The caller's message list and context mapping as they are now: when
\* the run works on the caller's own objects, whatever the run did to its
\* history and context was done to them.
CallersMessages == IF aliases.history THEN history ELSE messages

CallersContext == IF aliases.context THEN context ELSE contextVariables

\* The contextVariables of a successful result is the run's context
\* object, except in the placeholder runStream builds after an event.
ResultContextIsCallers ==
    /\ result.success
    /\ ~(consumer = "runStream" /\ events # <<>>)
    /\ aliases.context

\* C22: a run never mutates the caller's inputs.  Throughout run and the
\* streaming run, and so after they return with a success or a failure,
\* the caller's message list has the length and the elements it had at
\* entry and the caller's contextVariables the keys and values it had,
\* whatever tools were dispatched; the contextVariables of a successful
\* result is not the caller's mapping.
C22_CallersInputsUntouched ==
    mode \in {"run", "gen"} =>
        /\ Len(CallersMessages) = Len(messages)
        /\ CallersMessages = messages
        /\ CallersMessages =
              <<[role |-> "user", content |-> "hi", sender |-> Absent,
                 tool_call_id |-> Absent, tool_calls |-> [kind |-> "absent", list |-> <<>>]]>>
        /\ DOMAIN CallersContext = DOMAIN contextVariables
        /\ CallersContext = contextVariables
        /\ CallersContext["k"] = "v0"
        /\ Done => ~ResultContextIsCallers

\* C22 witness: a successful run that appended an assistant message, the
\* tool message of a dispatched tool that was handed the context mapping,
\* and a second assistant message.
C22_Witness ==
    /\ Done /\ ~stream /\ result.success
    /\ Len(history) = Len(messages) + 3
    /\ invocations # <<>>
    /\ invocations[1].ctxInjected
    /\ Len(messages) = 1
    /\ result.data.contextVariables = contextVariables

\* handleToolCalls executed alone over calls[i..], from the accumulator
\* `resp`.
RECURSIVE SoloDispatch(_, _, _, _)
SoloDispatch(calls, i, r, resp) ==
    IF i > Len(calls)
    THEN [threw |-> FALSE, error |-> NoError, response |-> resp]
    ELSE LET h == HandleToolCall(calls[i], r.activeAgent, r.context, resp) IN
         IF h.threw
         THEN [threw |-> TRUE, error |-> h.error, response |-> resp]
         ELSE SoloDispatch(calls, i + 1, r, h.response)

SoloOver(r, res, hist) ==
    [over |-> TRUE, result |-> res, history |-> hist, context |-> r.context]

\* The run r executed alone from the head of its loop, the provider
\* giving the answers `resps`: the result, history and context it ends
\* with, or (over = FALSE) the history and context it has when the
\* answers are used up.
RECURSIVE SoloRun(_, _)
SoloRun(r, resps) ==
    IF ~(LoopGuard(Len(r.history) - Len(r.messages), r.maxTurns) /\ r.activeAgent # Null)
    THEN SoloOver(r, SuccessResult(r.history, Len(r.messages), r.activeAgent, r.context),
                  r.history)
    ELSE IF resps = <<>>
    THEN [over |-> FALSE, result |-> NoResult, history |-> r.history,
          context |-> r.context]
    ELSE LET provider == Head(resps)
             received == [provider.message EXCEPT !.sender = Agents[r.activeAgent].name]
             pushed == Append(r.history, received)
         IN  CASE provider.kind = "throw" ->
                    SoloOver(r, Failure(APIError("OpenAI API call failed")), r.history)
               [] provider.kind = "malformed" ->
                    SoloOver(r, Failure(SwarmErrorOf(JsError("TypeError",
                        "Cannot read properties of undefined (reading 'message')"))),
                        r.history)
               [] ~Truthy(received.tool_calls) \/ ~r.executeTools ->
                    SoloOver(r, SuccessResult(pushed, Len(r.messages), r.activeAgent,
                                              r.context), pushed)
               [] OTHER ->
                    LET d == SoloDispatch(received.tool_calls.list, 1, r,
                                          NewResponse(r.context))
                    IN  IF d.threw
                        THEN SoloOver(r, Failure(SwarmErrorOf(d.error)), pushed)
                        ELSE SoloRun(
                               [r EXCEPT
                                  !.history = pushed \o d.response.messages,
                                  !.context = Assign(@, d.response.contextVariables),
                                  !.activeAgent = IF d.response.agent # Null
                                                  THEN d.response.agent ELSE @],
                               Tail(resps))

\* The run with the arguments of r, executed alone with the answers r got.
Alone(r) ==
    SoloRun([r EXCEPT !.activeAgent = r.agent, !.context = r.contextVariables,
                      !.history = r.messages],
            r.responses)

\* The run r is where the same run executed alone would be.
SameAsAlone(r) ==
    /\ r.pc = "done" =>
          /\ Alone(r).over
          /\ r.result = Alone(r).result
          /\ r.history = Alone(r).history
          /\ r.context = Alone(r).context
    /\ r.pc \in {"loop", "attempt"} =>
          /\ r.history = Alone(r).history
          /\ r.context = Alone(r).context

\* C23: two runs hosted by one engine and interleaved at their
\* suspension points do not interfere.  Each of the two, once over, has
\* the result, the history and the context mapping that the run has when
\* executed alone with the same arguments, provider answers and tools,
\* and between two turns it has the history and the context of that run.
C23_InterleavedRunsDoNotInterfere ==
    other # NoRun => (SameAsAlone(RunScoped) /\ SameAsAlone(other))

\* C23 witness: one run is over, having dispatched a tool and made two
\* completion requests, while the other, which has dispatched a tool
\* too, is suspended in its second completion request.
C23_Witness ==
    /\ other # NoRun
    /\ Done /\ result.success
    /\ Len(requests) = 2
    /\ invocations # <<>>
    /\ Len(result.data.messages) = 3
    /\ other.pc = "attempt"
    /\ Len(other.requests) = 2
    /\ other.invocations # <<>>
    /\ other.messages # messages

\* A tool-role message is told by the call it answers.
Outline(msg) ==
    IF msg.role = "tool" THEN [role |-> "tool", tool_call_id |-> msg.tool_call_id]
    ELSE msg

\* What a run that succeeds appends for the provider's answers `resps`:
\* each assistant message, labelled with the sender, followed by one
\* tool-role message for each call of its dispatch.
RECURSIVE AppendedFor(_, _, _)
AppendedFor(resps, senderName, dispatching) ==
    IF resps = <<>> THEN <<>>
    ELSE LET answer == Head(resps).message
             calls == IF dispatching /\ answer.tool_calls.kind = "list"
                      THEN answer.tool_calls.list ELSE <<>>
         IN  <<[answer EXCEPT !.sender = senderName]>>
             \o [i \in 1..Len(calls) |->
                    [role |-> "tool", tool_call_id |-> calls[i].id]]
             \o AppendedFor(Tail(resps), senderName, dispatching)

\* C24: on success a non-streaming run returns as messages exactly what
\* it appended during the run, in the order of appending (each assistant
\* message followed by the tool-role messages of its dispatch) and none
\* of the caller's initial messages, which still head the history; the
\* agent returned is the active agent at the exit of the loop and is not
\* none.
C24_ReturnsAppendedMessages ==
    (Done /\ mode = "run" /\ ~stream /\ other = NoRun /\ result.success) =>
        /\ history = messages \o result.data.messages
        /\ [i \in DOMAIN result.data.messages |-> Outline(result.data.messages[i])]
              = AppendedFor(responses, Agents[activeAgent].name, executeTools)
        /\ \A i \in DOMAIN result.data.messages :
              result.data.messages[i] \notin Range(messages)
        /\ result.data.agent = activeAgent
        /\ result.data.agent # Null
        /\ result.data.agent \in DOMAIN Agents

\* C24 witness: a run that appended an assistant message with two calls,
\* their two tool-role messages and a final assistant message.
C24_Witness ==
    /\ Done /\ mode = "run" /\ ~stream /\ result.success
    /\ Len(messages) = 1
    /\ Len(history) = 5
    /\ Len(result.data.messages) = 4
    /\ result.data.messages[1].role = "assistant"
    /\ result.data.messages[2].role = "tool"
    /\ result.data.messages[3].role = "tool"
    /\ result.data.messages[4].role = "assistant"
    /\ result.data.agent = "A"

\* The k-th provider answer is a message whose tool-call list is present
\* and empty.
AnsweredWithEmptyList(k) ==
    /\ responses[k].kind = "ok"
    /\ responses[k].message.tool_calls.kind = "list"
    /\ responses[k].message.tool_calls.list = <<>>

\* C25, as claimed: an assistant message whose tool-call list is present
\* but empty carries no tool calls, so the turn that received it is the
\* last one: no completion request follows it.
C25_EmptyToolCallListEndsRun ==
    \A k \in DOMAIN responses :
        AnsweredWithEmptyList(k) => Len(requests) = k

\* C26: with executeTools = false a non-streaming run is over after the
\* first assistant message, also when that message carries tool calls:
\* one completion request was made, no tool was invoked, and the result
\* is a success whose messages are that single assistant message, its
\* tool calls included.
C26_NoDispatchWithoutExecuteTools ==
    (mode = "run" /\ ~stream /\ other = NoRun /\ ~executeTools) =>
        /\ Len(requests) <= 1
        /\ invocations = <<>>
        /\ pc # "dispatch"
        /\ (responses # <<>> /\ responses[1].kind = "ok") =>
              /\ Done
              /\ ~raised
              /\ Len(responses) = 1
              /\ providerCalls = 1
              /\ result.success
              /\ result.data.messages =
                    <<[responses[1].message EXCEPT !.sender = Agents[agent].name]>>
              /\ result.data.messages[1].tool_calls = responses[1].message.tool_calls

\* C26 witness: executeTools = false and a first answer with two calls
\* to registered tools.
C26_Witness ==
    /\ Done /\ mode = "run" /\ ~stream /\ ~executeTools /\ maxTurns = Infinity
    /\ Len(responses) = 1
    /\ responses[1].kind = "ok"
    /\ Len(responses[1].message.tool_calls.list) = 2
    /\ responses[1].message.tool_calls.list[1].name = "echo"
    /\ responses[1].message.tool_calls.list[2].name = "boom"
    /\ result.success
    /\ Len(result.data.messages) = 1
    /\ Len(result.data.messages[1].tool_calls.list) = 2

\* The system message built from an agent's instructions.
SystemMessageOf(agentName) ==
    [role |-> "system", content |-> Agents[agentName].instructions, sender |-> Absent,
     tool_call_id |-> Absent, tool_calls |-> [kind |-> "absent", list |-> <<>>]]

\* The step that sends a completion request: the request is made for the
\* agent active before the step, over the history as it is before the step.
C27_RequestStep ==
    Len(requests') = Len(requests) + 1 =>
        LET sent == Last(requests')
            active == Agents[activeAgent]
        IN  /\ requests' = Append(requests, sent)
            /\ sent.messages[1] = SystemMessageOf(activeAgent)
            /\ SubSeq(sent.messages, 2, Len(sent.messages)) = history
            /\ SubSeq(history, 1, Len(messages)) = messages
            /\ Len(sent.messages) = 1 + Len(history)
            /\ sent.hasTools <=> Len(active.functions) >= 1
            /\ IF Len(active.functions) >= 1
               THEN /\ sent.tools = active.functions
                    /\ sent.tool_choice = active.toolChoice
                    /\ sent.parallel_tool_calls = active.parallelToolCalls
               ELSE /\ sent.tools = <<>>
                    /\ sent.tool_choice = Absent
            /\ producerCalls' = producerCalls + (IF active.dynamic THEN 1 ELSE 0)

\* A step that sends no request invokes no producer, unless it is the
\* step in which the producer throws and the run ends with that failure.
C27_OtherStep ==
    Len(requests') = Len(requests) =>
        \/ producerCalls' = producerCalls
        \/ /\ producerCalls' = producerCalls + 1
           /\ Agents[activeAgent].dynamic
           /\ pc' = "done"
           /\ ~result'.success
           /\ result'.error.text = "instructions failed"

\* C27: every completion request sent during a run has as message 0 the
\* system message built from the instructions of the agent active in that
\* turn, a producer of dynamic instructions being invoked once for the
\* request, followed by the full history in order (the initial messages
\* and everything appended so far); the tool manifest, the tool-choice
\* policy and the parallel-tool-calls flag are part of the request if and
\* only if the active agent has at least one registered tool.
C27_RequestCarriesInstructionsAndHistory == [][C27_RequestStep /\ C27_OtherStep]_vars

\* C27 witness: agent D, whose instructions are dynamic, in its second
\* turn: the request holds the system message, the user message, the
\* assistant message of the first turn and its two tool messages.
C27_Witness ==
    /\ ~stream /\ agent = "D" /\ pc = "attempt"
    /\ Len(requests) = 2
    /\ producerCalls = 2
    /\ Len(requests[2].messages) = 5
    /\ requests[2].messages[1].content = "You are D"
    /\ requests[2].messages[2].role = "user"
    /\ requests[2].messages[3].role = "assistant"
    /\ requests[2].messages[4].role = "tool"
    /\ requests[2].messages[5].role = "tool"
    /\ requests[2].hasTools

\* The messages are assistant messages, each dispatched one (when
\* `dispatching`, each one that carries a tool-call list) immediately
\* followed by one tool-role message per call, in call order and keyed to
\* the call's id, and nothing else.
RECURSIVE ToolMessagesPaired(_, _)
ToolMessagesPaired(msgs, dispatching) ==
    IF msgs = <<>> THEN TRUE
    ELSE LET first == Head(msgs)
             calls == IF dispatching /\ first.tool_calls.kind = "list"
                      THEN first.tool_calls.list ELSE <<>>
             n == Len(calls)
         IN  /\ first.role = "assistant"
             /\ Len(msgs) >= 1 + n
             /\ \A i \in 1..n :
                   /\ msgs[1 + i].role = "tool"
                   /\ msgs[1 + i].tool_call_id = calls[i].id
             /\ ToolMessagesPaired(SubSeq(msgs, n + 2, Len(msgs)), dispatching)

\* The calls of the assistant messages that name no tool of the active
\* agent, as pairs <<position of the message, position of the call>>.
UnregisteredCalls(msgs) ==
    {pos \in (DOMAIN msgs) \X (1..9) :
        /\ executeTools
        /\ msgs[pos[1]].role = "assistant"
        /\ pos[2] \in DOMAIN msgs[pos[1]].tool_calls.list
        /\ msgs[pos[1]].tool_calls.list[pos[2]].name
              \notin Range(Agents[activeAgent].functions)}

\* C28: tool-message integrity.  In the messages a successful run
\* returns, every dispatched assistant message is immediately followed
\* by exactly one tool-role message per tool call it carries, in call
\* order, each with the tool_call_id of its call, whether the tool was
\* found or not; no tool-role message stands anywhere else.
C28_ToolMessageIntegrity ==
    (Done /\ mode \in {"run", "gen"} /\ other = NoRun /\ result.success) =>
        /\ ToolMessagesPaired(result.data.messages, executeTools)
        /\ Cardinality({i \in DOMAIN result.data.messages :
                           result.data.messages[i].role = "tool"})
              = Len(invocations) + Cardinality(UnregisteredCalls(result.data.messages))

\* C28 witness: a dispatch over a call to the unregistered "ghost" and a
\* call to "setvar"; both tool-role messages carry their call's id.
C28_Witness ==
    /\ Done /\ ~stream /\ result.success /\ agent = "A"
    /\ Len(result.data.messages) = 4
    /\ result.data.messages[1].tool_calls.list[1].name = "ghost"
    /\ result.data.messages[1].tool_calls.list[2].name = "setvar"
    /\ result.data.messages[2].tool_call_id = "call-1"
    /\ result.data.messages[2].content = "Error: Tool ghost not found."
    /\ result.data.messages[3].tool_call_id = "call-2"
    /\ result.data.messages[4].role = "assistant"

\* The events of a turn whose stream the provider delivers in full: the
\* start marker, the deltas in the order of delivery, the end marker.
EventsOfTurn(provider) ==
    LET delivered == StreamOf(provider) IN
    <<[kind |-> "start", delta |-> EmptyMap]>>
    \o [i \in DOMAIN delivered |-> [kind |-> "delta", delta |-> delivered[i].delta]]
    \o <<[kind |-> "end", delta |-> EmptyMap]>>

\* The events of the turns answered so far; a failed request has none.
RECURSIVE EventsOfTurns(_)
EventsOfTurns(resps) ==
    IF resps = <<>> THEN <<>>
    ELSE (IF Head(resps).kind = "ok" THEN EventsOfTurn(Head(resps)) ELSE <<>>)
         \o EventsOfTurns(Tail(resps))

\* The events yielded so far, without the sender label the generator
\* adds to a delta that carries the assistant role.
EventsSeen ==
    [i \in DOMAIN events |->
        [kind |-> events[i].kind,
         delta |-> [key \in DOMAIN events[i].delta \ {"sender"} |-> events[i].delta[key]]]]

EndMarkers == Cardinality({i \in DOMAIN events : events[i].kind = "end"})

\* Every chunk of every stream delivered so far exposes a delta.
StreamsWellFormed == \A k \in DOMAIN responses : responses[k].kind # "malformed"

IndexesSeen ==
    {FragmentsMerged[i]["index"].s : i \in DOMAIN FragmentsMerged}

\* The keys of the tool-call accumulator of the message, none before the
\* first fragment.
AccumulatorKeys ==
    IF message["tool_calls"].t = "null" THEN {}
    ELSE DOMAIN message["tool_calls"].o

\* C30, as claimed: the tool-call accumulator built by mergeChunk is keyed
\* by fragment index.  After any sequence of deltas the keys of the
\* accumulator are exactly the index values the merged fragments carried:
\* a fragment with index 1 creates no record at key 0.
C30_AccumulatorKeyedByIndex ==
    mode = "merge" => AccumulatorKeys = IndexesSeen


\* A value of the heap with what lies below it.
DeepValue(hp, value) ==
    IF value.t = "ref"
    THEN [t |-> IF value.s = "arr" THEN "arr" ELSE "obj", s |-> "", o |-> Deep(hp, value.ref)]
    ELSE [t |-> value.t, s |-> value.s, o |-> EmptyMap]

\* The latest call of mergeFields: its source, and the heap it started from.
LatestMerge == merges[Len(merges)]

\* C31: the frame of mergeFields.  After a call mergeFields(target, source)
\*  - every key of target that does not occur in source holds what it held;
\*  - at a key where source holds a number, a boolean or null, target holds
\*    what it held, or still nothing;
\*  - at a key where source holds a mapping and target held nothing, target
\*    holds a new mapping, filled from the source's;
\*  - the source of this call and of every earlier call is as it was built.
\* The target by reference ends as mergeFields on values computes it.
C31_MergeFieldsFrame ==
    (mode = "fields" /\ merges # <<>>) =>
        LET before == LatestMerge.before
            source == before[LatestMerge.source]
            was == before[TargetObject]
            now == heap[TargetObject]
        IN  /\ \A key \in DOMAIN was \ DOMAIN source :
                  /\ key \in DOMAIN now
                  /\ now[key] = was[key]
                  /\ DeepValue(heap, now[key]) = DeepValue(before, was[key])
            /\ \A key \in {k \in DOMAIN source : source[k].t \notin {"str", "ref"}} :
                  /\ key \in DOMAIN now <=> key \in DOMAIN was
                  /\ key \in DOMAIN was =>
                        /\ now[key] = was[key]
                        /\ DeepValue(heap, now[key]) = DeepValue(before, was[key])
            /\ \A key \in {k \in DOMAIN source : source[k].t = "ref"} \ DOMAIN was :
                  /\ key \in DOMAIN now
                  /\ now[key].t = "ref"
                  /\ now[key].ref > Len(before)
                  /\ Deep(heap, now[key].ref) =
                        mergeFields(EmptyMap, Deep(before, source[key].ref))
            /\ \A i \in DOMAIN merges :
                  Deep(heap, merges[i].source) = Deep(merges[i].before, merges[i].source)
            /\ Deep(heap, TargetObject) =
                  mergeFields(Deep(before, TargetObject), Deep(before, LatestMerge.source))

\* C31 witness: into a fresh message a source with text, a number and a
\* nested mapping was merged, then a source with a mapping two levels
\* deep: the text is appended, the number is not taken, the nested
\* mappings exist in the target.
C31_Witness ==
    /\ mode = "fields"
    /\ Len(merges) = 2
    /\ Deep(merges[1].before, merges[1].source) =
          ("content" :> JStr("x")) @@ ("count" :> JNum("1"))
             @@ ("nested" :> JObj("text" :> JStr("b")))
    /\ {"sender", "content", "nested"} \subseteq DOMAIN heap[TargetObject]
    /\ Deep(heap, TargetObject)["sender"] = JStr("A")
    /\ Deep(heap, TargetObject)["content"] = JStr("x")
    /\ "count" \notin DOMAIN heap[TargetObject]
    /\ Deep(heap, TargetObject)["nested"] =
          JObj(("text" :> JStr("b")) @@ ("deeper" :> JObj("text" :> JStr("c"))))


\* What an object holds at a key, undefined when it holds nothing there.
Held(object, key) == IF key \in DOMAIN object THEN object[key] ELSE HUndefined

\* C32: mergeChunk never changes the role of the in-progress message.
\* Whatever role a delta carries, after mergeChunk(finalResponse, delta)
\* the role of finalResponse is what it was (none when it had none), and
\* the delta has no role field any more, nor has any delta merged
\* earlier; what else the delta holds outside its fragment list is as
\* it was.
\* The message by reference ends as mergeChunk on values computes it.
C32_RoleNeverMerged ==
    (mode = "chunks" /\ merges # <<>>) =>
        LET before == LatestMerge.before
            delta == LatestMerge.source
        IN  /\ Held(heap[TargetObject], "role") = Held(before[TargetObject], "role")
            /\ "role" \notin DOMAIN heap[delta]
            /\ \A key \in DOMAIN before[delta] \ {"role", "tool_calls"} :
                  Held(heap[delta], key) = before[delta][key]
            /\ \A i \in DOMAIN merges :
                  /\ "role" \notin DOMAIN heap[merges[i].source]
                  /\ "content" \in DOMAIN merges[i].before[merges[i].source] =>
                        heap[merges[i].source]["content"] =
                           merges[i].before[merges[i].source]["content"]
            /\ Deep(heap, TargetObject) =
                  mergeChunk(Deep(before, TargetObject), Deep(before, delta))

\* C32 witness: a delta {role: "user"} and then a delta {role: "tool",
\* content: "lo"} were merged into a fresh assistant message: the message
\* is still the assistant's, and holds the text.
C32_Witness ==
    /\ mode = "chunks"
    /\ Len(merges) = 2
    /\ merges[1].before[merges[1].source] = ("role" :> HStr("user"))
    /\ merges[2].before[merges[2].source] =
          ("role" :> HStr("tool")) @@ ("content" :> HStr("lo"))
    /\ heap[merges[2].source] = ("content" :> HStr("lo"))
    /\ {"role", "content"} \subseteq DOMAIN heap[TargetObject]
    /\ heap[TargetObject]["role"] = HStr("assistant")
    /\ heap[TargetObject]["content"] = HStr("lo")


\* C33, as claimed: parseArguments returns a key/value mapping or fails
\* with a validation error.  A text that is valid JSON but no object (a
\* number, a string, a list, true, false, null) is not returned as a
\* successful result.
C33_OnlyMappingsReturned ==
    \A i \in DOMAIN parsed :
        \/ parsed[i].threw /\ parsed[i].error.code = "VALIDATION_ERROR"
        \/ ~parsed[i].threw /\ parsed[i].kind = "object"


\* C34: every failure result that run (and, with stream set, runStream)
\* returns carries a code of the stable tag set, and never TIMEOUT_ERROR,
\* also when what was thrown inside the run is a TimeoutError.
C34_FailureCarriesStableTag ==
    (Done /\ ~raised /\ ~result.success) =>
        /\ result.error.code \in ErrorTags
        /\ result.error.code # "TIMEOUT_ERROR"

\* C34 witness: the producer of the instructions threw a TimeoutError; the
\* failure returned has its name and the code UNKNOWN_ERROR.
C34_Witness ==
    /\ Done /\ ~raised /\ ~result.success
    /\ agent = "D"
    /\ producerCalls = 1
    /\ requests = <<>>
    /\ result.error.name = "TimeoutError"
    /\ result.error.code = "UNKNOWN_ERROR"


\* C35, as claimed: CLI.start() returns once stop() has been called.  With
\* the input interface closed, either the command-line interface still has
\* a step to take or the promise start() returned has resolved.
C35_StartReturnsAfterStop ==
    cli.closed => (cli.pc = "resolved" \/ ENABLED NextCLI)

IsPrefix(a, b) == Len(a) <= Len(b) /\ SubSeq(b, 1, Len(a)) = a

\* The step in which the user's answer arrives and run is called.
C36_AnswerStep ==
    (cli.pc = "waiting" /\ cli'.pc = "running") =>
        /\ \E userInput \in UserInputs :
              cli'.messages = Append(cli.messages, UserMessage(userInput))
        /\ pc' = "start"
        /\ messages' = cli'.messages
        /\ agent' = cli.activeAgent

\* The step in which run has returned.
C36_ResponseStep ==
    (cli.pc = "running" /\ pc = "done" /\ cli'.pc # "running") =>
        IF ~result.success
        THEN /\ cli'.errors = Append(cli.errors, result.error)
             /\ cli'.messages = cli.messages
             /\ cli'.activeAgent = cli.activeAgent
             /\ cli'.pc = "prompt"
        ELSE /\ cli'.errors = cli.errors
             /\ cli'.messages = cli.messages \o result.data.messages
             /\ cli'.activeAgent = IF result.data.agent # Null THEN result.data.agent
                                   ELSE cli.activeAgent
             /\ cli'.pc = "prompt"

\* C36, as claimed: the conversation state of the command-line interface
\* across iterations.  The history is append-only; an iteration appends
\* the user message before it calls run; when run returns a failure the
\* error is logged, nothing more is appended, the active agent is
\* unchanged and the loop prompts again; when run returns a success the
\* returned messages are appended, the active agent becomes the returned
\* agent (or stays, when none is returned) and the loop prompts again.
C36_ConversationState ==
    [][/\ IsPrefix(cli.messages, cli'.messages)
       /\ C36_AnswerStep
       /\ C36_ResponseStep]_vars


\* C37: one run makes no more completion requests than maxTurns.  At any
\* time of a run with a finite maxTurns the requests built and the calls
\* of the provider number at most maxTurns; with maxTurns = 0 the run,
\* streaming or not, makes none and returns success with no messages, the
\* agent it was given and a context mapping that holds the caller's
\* entries and is not the caller's object.
C37_RequestsBoundedByMaxTurns ==
    /\ maxTurns # Infinity =>
          /\ Len(requests) <= maxTurns
          /\ providerCalls <= maxTurns
    /\ (maxTurns = 0 /\ Done) =>
          /\ requests = <<>>
          /\ providerCalls = 0
          /\ producerCalls = 0
          /\ ~raised
          /\ result = Success([messages |-> <<>>, agent |-> agent,
                               contextVariables |-> contextVariables])
          /\ ~aliases.context

\* C37 witness: a run with maxTurns = 2 has made one request, dispatched
\* the tool call of the answer and is over, two messages appended.
C37_Witness ==
    /\ Done /\ maxTurns = 2 /\ ~stream
    /\ result.success /\ Len(result.data.messages) = 2
    /\ Len(requests) = 1 /\ providerCalls = 1
    /\ invocations # <<>>

\* A run with unbounded maxTurns that is over ended on a failure, without
\* executeTools, or on an assistant message without tool calls.
EndedForACause ==
    (Done /\ maxTurns = Infinity) =>
        \/ raised
        \/ ~result.success
        \/ ~executeTools
        \/ /\ result.data.messages # <<>>
           /\ Last(result.data.messages).role = "assistant"
           /\ ~Truthy(Last(result.data.messages).tool_calls)

NoToolMessage(msgs) == \A i \in DOMAIN msgs : msgs[i].role # "tool"

\* A run with stream set invokes no tool and appends no tool message.
StreamRunsNoTool ==
    /\ invocations = <<>>
    /\ pc # "dispatch"
    /\ Len(history) <= Len(messages)
    /\ (Done /\ result.success /\ result.hasData /\ result.data # NoData) =>
           NoToolMessage(result.data.messages)

\* C39, as claimed: a run with stream = true that is over has made exactly
\* one completion request, and has invoked no tool and appended no tool
\* message.
C39_ExactlyOneRequest ==
    (stream /\ Done) => (Len(requests) = 1 /\ StreamRunsNoTool)

\* C39, amended: a run with stream = true makes at most one completion
\* request and never invokes a tool or appends a tool message, whatever
\* the answer holds: the generator is abandoned at its first event.  The
\* run makes no request at all when maxTurns is 0 or when producing the
\* instructions fails, and exactly one otherwise.
C39_AtMostOneRequest ==
    stream =>
        /\ Len(requests) <= 1
        /\ StreamRunsNoTool
        /\ Len(events) <= 1
        /\ (events # <<>> => Done)
        /\ Done =>
              /\ (maxTurns # 0 /\ result.success) => Len(requests) = 1
              /\ Len(requests) = 0 =>
                    \/ maxTurns = 0 /\ result.success
                    \/ /\ maxTurns # 0 /\ ~result.success
                       /\ Agents[agent].dynamic /\ producerCalls = 1

\* A run with stream = true is over after one request whose answer held
\* two tool calls, the first of a registered tool; no tool was invoked.
C39_Witness ==
    /\ stream /\ Done /\ executeTools /\ maxTurns = Infinity
    /\ Len(requests) = 1 /\ Len(responses) = 1
    /\ responses[1].kind = "ok"
    /\ responses[1].message.tool_calls.kind = "list"
    /\ Len(responses[1].message.tool_calls.list) = 2
    /\ responses[1].message.tool_calls.list[1].name = "echo"
    /\ invocations = <<>>
    /\ events = <<DelimEvent("start")>>

\* The calls of one turn that were invoked, in the order of the log.
InvokedInTurn(t) ==
    SelectSeq(toolLog, LAMBDA e : e.op = "invoke" /\ e.turn = t)

\* The tool log alternates: every invocation is followed by its own
\* settling before the next invocation, and invocations follow the order
\* of the turns and, within a turn, of the list of tool calls.
SequentialLog ==
    /\ \A i \in DOMAIN toolLog :
          IF i % 2 = 1
          THEN toolLog[i].op = "invoke"
          ELSE /\ toolLog[i].op = "settle"
               /\ toolLog[i].idx = toolLog[i - 1].idx
               /\ toolLog[i].turn = toolLog[i - 1].turn
    /\ \A i, j \in DOMAIN toolLog :
          (i < j /\ toolLog[i].op = "invoke" /\ toolLog[j].op = "invoke") =>
              \/ toolLog[i].turn < toolLog[j].turn
              \/ /\ toolLog[i].turn = toolLog[j].turn
                 /\ toolLog[i].idx < toolLog[j].idx
    /\ (Len(toolLog) % 2 = 1) <=> (pc = "tool")
    /\ Len(invocations) = (Len(toolLog) + 1) \div 2

\* A completion request is built only when no tool is in flight and the
\* loop over the tool calls of the turn before has run to its end.
RequestAfterDispatch ==
    Len(requests') > Len(requests) =>
        /\ Len(toolLog) % 2 = 0
        /\ pc = "loop"
        /\ callIdx \in {0, Len(toolCalls) + 1}

====
